---- MODULE Spec2Model ----
(***************************************************************************)
(* Medicine cost analysis: the name canonicalizer (01_extract_medicines,   *)
(* 04_final_analysis), the unit-suffix resolver (03_normalize_advanced,    *)
(* 04_final_analysis), the MRP extraction chain and its command line       *)
(* (fetch_cost_by_url), the search crawlers with their match classifier    *)
(* (tata1mg_crawler, tata1mg_crawler_bs4), the price updater               *)
(* (update_medicine_prices) and the URL finder (populate_urls).            *)
(*                                                                         *)
(* A Python str is a sequence of one-character strings.                    *)
(***************************************************************************)
EXTENDS Integers, Sequences, FiniteSets, TLC

VARIABLES
    raw,        \* canonicalizer: the raw medicine name read from a cell
    cleaned,    \* clean_med(raw)            (01_extract_medicines.py)
    canon,      \* normalize(raw)            (04_final_analysis.py)
    recanon,    \* normalize(canon)
    cpc,        \* position of the canonicalizer run
    cname,      \* resolver: the canonical name being resolved
    reference,  \* the reference set (all_raw / norm_set)
    resolved,   \* the resolved name
    reresolved, \* the resolved name, resolved again over the same reference set
    rpc,        \* position of the resolver run
    pipeline,   \* corpus pass: which script runs ("03": 03_normalize_advanced.py,
                \*              "04": 04_final_analysis.py)
    todo,       \* the names of the corpus the pass has not come to yet
    final_meds, \* the final medicine set (final_meds / all_meds)
    refinal,    \* the final set, each member resolved again
    mpc,        \* position of the corpus pass
    doc,        \* extraction chain: the parsed document (soup)
    result,     \* what extract_mrp_from_html returned or raised
    epc,        \* position of extract_mrp_from_html
    impl,       \* crawler: which script runs ("regex": tata1mg_crawler.py,
                \*          "bs4": tata1mg_crawler_bs4.py)
    medicines,  \* the medicine_name column of the input sheet
    idx,        \* index of the row crawl_medicines is at (1-based)
    attempt,    \* loop variable of the search function (0-based, as in the code)
    trail,      \* what the search of the current row met: one record per request
    found,      \* what the search returned: (product_name, mrp, score)
    df,         \* the result columns of the data frame, one record per row
    saved,      \* the rows last written to the output file
    kpc,        \* position of crawl_medicines
    sheet,      \* updater: the rows of the open workbook (ws)
    loaded,     \* the rows as load_workbook read them at the start of the pass
    file,       \* the rows of the workbook as persisted at xlsx_path
    row,        \* index of the row main is at (1-based)
    child,      \* the child process started for the current row
    status,     \* the status logged for each row ("" before it is visited)
    fetches,    \* how many child processes were started for each row
    counters,   \* total_rows, fetched_ok, fetched_fail, skipped_no_url, skipped_filled
    failed_rows,\* the list failed_rows
    passes,     \* how many times main was started over the file
    exit_status,\* what main returned (-1 before it returns)
    rested,     \* tenths of a second slept since the last child process ended
                \* (-1 before the first one ends)
    upc,        \* position of main
    book,       \* URL finder: the rows of the input workbook (name and URL cells)
    start,      \* args.start
    sessions,   \* browser sessions: how many were created, how many are open
    fi,         \* loop variable i of main (the row being searched)
    results,    \* the list results
    written,    \* the medicine_url column of the workbook write_output saved
    fpc         \* position of main of populate_urls.py

canonVars == <<raw, cleaned, canon, recanon, cpc>>
corpusVars == <<pipeline, todo, final_meds, refinal, mpc>>
resolverVars == <<cname, reference, resolved, reresolved, rpc, corpusVars>>
extractVars == <<doc, result, epc>>
crawlVars == <<impl, medicines, idx, attempt, trail, found, df, saved, kpc>>
updateVars ==
    <<sheet, loaded, file, row, child, status, fetches, counters, failed_rows, passes,
      exit_status, rested, upc>>
finderVars == <<book, start, sessions, fi, results, written, fpc>>
vars == <<canonVars, resolverVars, extractVars, crawlVars, updateVars, finderVars>>

----------------------------------------------------------------------------
(* Bounds of the model                                                     *)

MaxLen == 5         \* longest enumerated raw name
MaxName == 2        \* longest enumerated canonical name given to the resolver
MaxRef == 3         \* most names in an enumerated reference set
MaxDepth == 2       \* nesting depth of the enumerated pageProps trees
MaxScripts == 2     \* most ld+json script tags in an enumerated document
MaxText == 3        \* longest enumerated run of price characters in a text

----------------------------------------------------------------------------
(* Characters                                                              *)

Space == " "
Tab == "\t"
\* the grave accent U+0060; SANY does not lex that character inside a string
\* literal, so the one-character string is written as the atom "GRAVE"
Backtick == "GRAVE"
Period == "."

\* str.strip() / regex \s : whitespace characters
IsSpace(c) == c \in {Space, Tab}

IsDigit(c) == c \in {"0", "1", "2", "3", "4", "5", "6", "7", "8", "9"}

UpperLetters == {"C", "D", "G", "M", "P"}
LowerLetters == {"a", "b", "c", "d", "e", "g", "i", "l", "m", "n", "o", "p", "r", "t", "u"}

\* regex \w : letters, digits (and underscore, which no modelled text holds)
IsWord(c) == c \in UpperLetters \/ c \in LowerLetters \/ IsDigit(c)

\* str.lower() on one character
LowerChar(c) ==
    CASE c = "C" -> "c"
      [] c = "D" -> "d"
      [] c = "G" -> "g"
      [] c = "M" -> "m"
      [] c = "P" -> "p"
      [] OTHER -> c

SetMin(S) == CHOOSE x \in S : \A y \in S : x <= y
SetMax(S) == CHOOSE x \in S : \A y \in S : x >= y

\* all sequences over alphabet A of length 0..n
RECURSIVE StrsOfLen(_, _)
StrsOfLen(A, n) ==
    IF n = 0 THEN {<<>>}
    ELSE {Append(s, c) : s \in StrsOfLen(A, n - 1), c \in A}

StrsUpTo(A, n) == UNION {StrsOfLen(A, k) : k \in 0..n}

----------------------------------------------------------------------------
(* Canonicalizer                                                           *)

\* str.strip(chars): drop leading and trailing characters that satisfy the class
StripSet(s, C) ==
    LET keep == {i \in 1..Len(s) : s[i] \notin C}
    IN  IF keep = {} THEN <<>> ELSE SubSeq(s, SetMin(keep), SetMax(keep))

\* str.strip()
Strip(s) == StripSet(s, {Space, Tab})

\* str.lower()
Lower(s) == [i \in 1..Len(s) |-> LowerChar(s[i])]

\* re.sub(r'\s+', ' ', s): every maximal whitespace run becomes one space
RECURSIVE CollapseFrom(_, _)
CollapseFrom(s, i) ==
    IF i > Len(s) THEN <<>>
    ELSE IF IsSpace(s[i])
         THEN IF i > 1 /\ IsSpace(s[i - 1])
              THEN CollapseFrom(s, i + 1)
              ELSE <<Space>> \o CollapseFrom(s, i + 1)
         ELSE <<s[i]>> \o CollapseFrom(s, i + 1)

CollapseWs(s) == CollapseFrom(s, 1)

\* the alternation (mg|mcg|ml|gm|iu|g), in the order the regex tries it
RegexUnits ==
    << <<"m", "g">>, <<"m", "c", "g">>, <<"m", "l">>,
       <<"g", "m">>, <<"i", "u">>, <<"g">> >>

HasAt(s, i, u) ==
    /\ i >= 1
    /\ i + Len(u) - 1 <= Len(s)
    /\ SubSeq(s, i, i + Len(u) - 1) = u

\* regex \b between s[p] and s[p+1] (p = 0: start, p = Len(s): end)
WordBoundary(s, p) ==
    LET before == p >= 1 /\ p <= Len(s) /\ IsWord(s[p])
        after  == p + 1 >= 1 /\ p + 1 <= Len(s) /\ IsWord(s[p + 1])
    IN  before # after

\* index in RegexUnits of the first alternative matching at i and followed by \b; 0: none
UnitAt(s, i) ==
    LET ok == {k \in 1..Len(RegexUnits) :
                  /\ HasAt(s, i, RegexUnits[k])
                  /\ WordBoundary(s, i + Len(RegexUnits[k]) - 1)}
    IN  IF ok = {} THEN 0 ELSE SetMin(ok)

\* length of the whitespace run starting at i (the greedy \s*)
RECURSIVE WsRun(_, _)
WsRun(s, i) ==
    IF i <= Len(s) /\ IsSpace(s[i]) THEN 1 + WsRun(s, i + 1) ELSE 0

\* re.sub(r'\s*(mg|mcg|ml|gm|iu|g)\b', r'\1', s): one left-to-right pass,
\* non-overlapping matches, the text after a match is not rescanned with it
RECURSIVE UnitSubFrom(_, _)
UnitSubFrom(s, i) ==
    IF i > Len(s) THEN <<>>
    ELSE LET k == WsRun(s, i)
             u == UnitAt(s, i + k)
         IN  IF u # 0
             THEN RegexUnits[u] \o UnitSubFrom(s, i + k + Len(RegexUnits[u]))
             ELSE <<s[i]>> \o UnitSubFrom(s, i + 1)

UnitSub(s) == UnitSubFrom(s, 1)

\* normalize with the .lower() call left out
normalize_keep_case(name) ==
    LET a == Strip(name)
        b == CollapseWs(a)
        c == StripSet(StripSet(b, {Backtick}), {Period})
        d == UnitSub(c)
    IN  Strip(d)

\* 04_final_analysis.py normalize
normalize(name) ==
    LET a == Lower(Strip(name))
        b == CollapseWs(a)
        c == StripSet(StripSet(b, {Backtick}), {Period})
        d == UnitSub(c)
    IN  Strip(d)

\* 01_extract_medicines.py clean_med
clean_med(name) ==
    LET a == Lower(Strip(name))
        b == StripSet(StripSet(a, {Backtick}), {Period})
    IN  Strip(CollapseWs(b))

----------------------------------------------------------------------------
(* Inputs of the canonicalizer                                             *)

\* one lower-case letter, one upper-case letter (m, G spell the units mg, gm, g
\* once lower-cased), a digit, whitespace and the two stray delimiters
NameAlphabet == {"m", "G", "5", Space, Backtick, Period}

Paracetamol500MG ==
    <<"P", "a", "r", "a", "c", "e", "t", "a", "m", "o", "l", " ", " ", " ",
      "5", "0", "0", " ", "M", "G", ".">>

paracetamol500mg ==
    <<"p", "a", "r", "a", "c", "e", "t", "a", "m", "o", "l", " ",
      "5", "0", "0", "m", "g">>

RawNames == StrsUpTo(NameAlphabet, MaxLen) \cup {Paracetamol500MG, paracetamol500mg}

CanonIdle ==
    /\ raw = <<>>
    /\ cleaned = <<>>
    /\ canon = <<>>
    /\ recanon = <<>>
    /\ cpc = "off"

CorpusIdle ==
    /\ pipeline = "off"
    /\ todo = {}
    /\ final_meds = {}
    /\ refinal = {}
    /\ mpc = "off"

ResolverIdle ==
    /\ cname = <<>>
    /\ reference = {}
    /\ resolved = <<>>
    /\ reresolved = <<>>
    /\ rpc = "off"
    /\ CorpusIdle

ExtractIdle ==
    /\ doc = [next_data |-> [tag |-> "absent"], ld_json |-> <<>>, body |-> <<>>]
    /\ result = [kind |-> "pending", text |-> <<>>]
    /\ epc = "off"

CrawlIdle ==
    /\ impl = "off"
    /\ medicines = <<>>
    /\ idx = 0
    /\ attempt = 0
    /\ trail = <<>>
    /\ found = [product_name |-> [kind |-> "None", text |-> <<>>],
                mrp |-> [kind |-> "None", mant |-> 0, exp |-> 0],
                score |-> [num |-> 0, den |-> 1]]
    /\ df = <<>>
    /\ saved = <<>>
    /\ kpc = "off"

UpdateIdle ==
    /\ sheet = <<>>
    /\ loaded = <<>>
    /\ file = <<>>
    /\ row = 0
    /\ child = [kind |-> "none", program |-> "none", found |-> <<>>,
                returncode |-> 0, stdout |-> <<>>, stderr |-> <<>>]
    /\ status = <<>>
    /\ fetches = <<>>
    /\ counters = [total_rows |-> 0, fetched_ok |-> 0, fetched_fail |-> 0,
                   skipped_no_url |-> 0, skipped_filled |-> 0]
    /\ failed_rows = <<>>
    /\ passes = 0
    /\ exit_status = -1
    /\ rested = -1
    /\ upc = "off"

FinderIdle ==
    /\ book = <<>>
    /\ start = 0
    /\ sessions = [created |-> 0, open |-> 0]
    /\ fi = 0
    /\ results = <<>>
    /\ written = <<>>
    /\ fpc = "off"

InitCanon ==
    /\ raw \in RawNames
    /\ cleaned = <<>>
    /\ canon = <<>>
    /\ recanon = <<>>
    /\ cpc = "raw"
    /\ ResolverIdle
    /\ ExtractIdle
    /\ CrawlIdle
    /\ UpdateIdle
    /\ FinderIdle

\* 01_extract_medicines.py: cleaned = clean_med(med)
CleanMed ==
    /\ cpc = "raw"
    /\ cleaned' = clean_med(raw)
    /\ cpc' = "cleaned"
    /\ UNCHANGED <<raw, canon, recanon, resolverVars, extractVars, crawlVars, updateVars, finderVars>>

\* 04_final_analysis.py: all_raw.add(normalize(med))
Normalize ==
    /\ cpc = "cleaned"
    /\ canon' = normalize(raw)
    /\ cpc' = "canonical"
    /\ UNCHANGED <<raw, cleaned, recanon, resolverVars, extractVars, crawlVars, updateVars, finderVars>>

\* 04_final_analysis.py: a canonical name is canonicalized again
Renormalize ==
    /\ cpc = "canonical"
    /\ recanon' = normalize(canon)
    /\ cpc' = "recanonical"
    /\ UNCHANGED <<raw, cleaned, canon, resolverVars, extractVars, crawlVars, updateVars, finderVars>>

NextCanon == CleanMed \/ Normalize \/ Renormalize

SpecCanon == InitCanon /\ [][NextCanon]_vars

----------------------------------------------------------------------------
(* Unit-suffix resolver                                                    *)

\* UNITS = ['mg', 'ml', 'mcg', 'gm', 'iu'] written in the order of the regex
\* alternation of normalize instead
UNITS_regex_order ==
    << <<"m", "g">>, <<"m", "c", "g">>, <<"m", "l">>, <<"g", "m">>, <<"i", "u">> >>

\* UNITS = ['mg', 'ml', 'mcg', 'gm', 'iu']
UNITS ==
    << <<"m", "g">>, <<"m", "l">>, <<"m", "c", "g">>, <<"g", "m">>, <<"i", "u">> >>

\* the pattern without its end anchor: re.compile(r'^(.*\d)')
bare_unanchored(n) == \E i \in 1..Len(n) : IsDigit(n[i])

\* bare = re.compile(r'^(.*\d)$'); bare.match(n), for a name without line breaks
bare(n) == n # <<>> /\ IsDigit(n[Len(n)])

\* a unit is appended whether or not the concatenation is in the reference set
resolve_first_unit(n, R) == IF bare(n) THEN n \o UNITS[1] ELSE n

\* the body of full_normalize after n = normalize(name), and of the mapping loop
\* of 03_normalize_advanced.py: the first unit whose concatenation is in the
\* reference set is appended
resolve(n, R) ==
    IF bare(n)
    THEN LET present == {k \in 1..Len(UNITS) : n \o UNITS[k] \in R}
         IN  IF present = {} THEN n ELSE n \o UNITS[SetMin(present)]
    ELSE n

\* 04_final_analysis.py full_normalize
full_normalize(med, all_raw) == resolve(normalize(med), all_raw)

(* Inputs of the resolver                                                  *)

ResolverAlphabet == {"a", "5"}

abc500 == <<"a", "b", "c", "5", "0", "0">>
abc500mg == <<"a", "b", "c", "5", "0", "0", "m", "g">>

CanonicalNames == (StrsUpTo(ResolverAlphabet, MaxName) \ {<<>>}) \cup {abc500}

\* names a reference set may hold beside n: n itself, n with a unit of the
\* canonicalizer's vocabulary appended, and such a name with mg appended again
NamesNear(n) ==
    {n}
    \cup {n \o RegexUnits[k] : k \in 1..Len(RegexUnits)}
    \cup {n \o UNITS[k] \o UNITS[1] : k \in 1..Len(UNITS)}

ReferenceSets(n) == {R \in SUBSET NamesNear(n) : Cardinality(R) <= MaxRef}

InitResolver ==
    /\ cname \in CanonicalNames
    /\ reference \in ReferenceSets(cname)
    /\ resolved = <<>>
    /\ reresolved = <<>>
    /\ rpc = "canonical"
    /\ CorpusIdle
    /\ CanonIdle
    /\ ExtractIdle
    /\ CrawlIdle
    /\ UpdateIdle
    /\ FinderIdle

\* 03_normalize_advanced.py mapping loop / 04_final_analysis.py full_normalize
Resolve ==
    /\ rpc = "canonical"
    /\ resolved' = resolve(cname, reference)
    /\ rpc' = "resolved"
    /\ UNCHANGED <<cname, reference, reresolved, corpusVars, canonVars, extractVars, crawlVars, updateVars, finderVars>>

\* the pipeline is run again on its own output, over the same reference set
Reresolve ==
    /\ rpc = "resolved"
    /\ reresolved' = resolve(resolved, reference)
    /\ rpc' = "reresolved"
    /\ UNCHANGED <<cname, reference, resolved, corpusVars, canonVars, extractVars, crawlVars, updateVars, finderVars>>

NextResolver == Resolve \/ Reresolve

SpecResolver == InitResolver /\ [][NextResolver]_vars

----------------------------------------------------------------------------
(* Claims about the resolver                                               *)

\* the priority order the claim states: mg, ml, mcg, gm, iu
C5_Order ==
    << <<"m", "g">>, <<"m", "l">>, <<"m", "c", "g">>, <<"g", "m">>, <<"i", "u">> >>

C5_EndsInDigit(n) == n # <<>> /\ IsDigit(n[Len(n)])

\* C5: for a name n ending in a digit the resolver returns n+u for the first u
\* in the order mg, ml, mcg, gm, iu with n+u in R; it returns n unchanged when
\* no n+u is in R or n does not end in a digit; resolve("abc500", {"abc500mg"})
\* is "abc500mg" and resolve("abc500", {}) is "abc500".
C5_FirstUnitWins ==
    rpc \in {"resolved", "reresolved"} =>
        /\ ~C5_EndsInDigit(cname) => resolved = cname
        /\ (\A k \in 1..Len(C5_Order) : cname \o C5_Order[k] \notin reference)
               => resolved = cname
        /\ \A k \in 1..Len(C5_Order) :
               ( /\ C5_EndsInDigit(cname)
                 /\ cname \o C5_Order[k] \in reference
                 /\ \A j \in 1..(k - 1) : cname \o C5_Order[j] \notin reference )
               => resolved = cname \o C5_Order[k]
        /\ (cname = abc500 /\ reference = {abc500mg}) => resolved = abc500mg
        /\ (cname = abc500 /\ reference = {}) => resolved = abc500

\* two concatenations are in the reference set and the earlier one, ml, wins
C5_Witness ==
    /\ rpc = "resolved"
    /\ cname \o <<"m", "l">> \in reference
    /\ cname \o <<"m", "c", "g">> \in reference
    /\ resolved = cname \o <<"m", "l">>

\* C6: resolution is idempotent over a fixed reference set:
\* resolve(resolve(n, R), R) = resolve(n, R).
C6_ResolveIdempotent == rpc = "reresolved" => reresolved = resolved

\* a name was given a unit, the result with a unit appended is in the reference
\* set too, and resolving again changed nothing
C6_Witness ==
    /\ rpc = "reresolved"
    /\ resolved # cname
    /\ resolved \o <<"m", "g">> \in reference
    /\ reresolved = resolved

----------------------------------------------------------------------------
(* JSON values as json.loads returns them                                  *)

JNull == [t |-> "null"]                                  \* None
JInt(n) == [t |-> "int", n |-> n]                        \* int
JFloat(w, h) == [t |-> "float", whole |-> w, hundredths |-> h]  \* w + h/100, w >= 0
JStr(s) == [t |-> "str", s |-> s]                        \* str
JList(xs) == [t |-> "list", elems |-> xs]                \* list
JDict(es) == [t |-> "dict", items |-> es]                \* dict: <<[k, v], ...>> in order

IsDict(v) == v.t = "dict"
IsList(v) == v.t = "list"
IsNone(v) == v.t = "null"

\* bool(v)
Truthy(v) ==
    CASE v.t = "null"  -> FALSE
      [] v.t = "int"   -> v.n # 0
      [] v.t = "float" -> ~(v.whole = 0 /\ v.hundredths = 0)
      [] v.t = "str"   -> v.s # <<>>
      [] v.t = "list"  -> v.elems # <<>>
      [] v.t = "dict"  -> v.items # <<>>

\* a or b
PyOr(a, b) == IF Truthy(a) THEN a ELSE b

\* key in d
HasKey(d, key) == \E i \in 1..Len(d.items) : d.items[i].k = key

\* d[key]
Lookup(d, key) ==
    d.items[CHOOSE i \in 1..Len(d.items) : d.items[i].k = key].v

\* d.get(key, default)
DictGet(d, key, default) == IF HasKey(d, key) THEN Lookup(d, key) ELSE default

\* d.values()
DictValues(d) == [i \in 1..Len(d.items) |-> d.items[i].v]

DigitChars == <<"0", "1", "2", "3", "4", "5", "6", "7", "8", "9">>

\* str(n) for n >= 0
RECURSIVE NatToStr(_)
NatToStr(n) ==
    IF n < 10 THEN <<DigitChars[n + 1]>>
    ELSE NatToStr(n \div 10) \o <<DigitChars[(n % 10) + 1]>>

\* str(n) for an int
IntToStr(n) == IF n < 0 THEN <<"-">> \o NatToStr(0 - n) ELSE NatToStr(n)

\* str(x) for a float with at most two decimals: the shortest repr
FloatToStr(w, h) ==
    NatToStr(w) \o <<".">> \o
        (IF h % 10 = 0 THEN <<DigitChars[(h \div 10) + 1]>>
         ELSE <<DigitChars[(h \div 10) + 1], DigitChars[(h % 10) + 1]>>)

\* repr(v) / str(v) of a value; a str is quoted inside a container only
RECURSIVE PyRepr(_, _), PyReprSeq(_, _), PyReprItems(_, _)
PyRepr(v, quoted) ==
    CASE v.t = "null"  -> <<"N", "o", "n", "e">>
      [] v.t = "int"   -> IntToStr(v.n)
      [] v.t = "float" -> FloatToStr(v.whole, v.hundredths)
      [] v.t = "str"   -> IF quoted THEN <<"'">> \o v.s \o <<"'">> ELSE v.s
      [] v.t = "list"  -> <<"[">> \o PyReprSeq(v.elems, 1) \o <<"]">>
      [] v.t = "dict"  -> <<"{">> \o PyReprItems(v.items, 1) \o <<"}">>
PyReprSeq(xs, i) ==
    IF i > Len(xs) THEN <<>>
    ELSE (IF i > 1 THEN <<",", " ">> ELSE <<>>)
            \o PyRepr(xs[i], TRUE) \o PyReprSeq(xs, i + 1)
PyReprItems(es, i) ==
    IF i > Len(es) THEN <<>>
    ELSE (IF i > 1 THEN <<",", " ">> ELSE <<>>)
            \o <<"'", es[i].k, "'", ":", " ">> \o PyRepr(es[i].v, TRUE)
            \o PyReprItems(es, i + 1)

\* str(v)
PyStr(v) == PyRepr(v, FALSE)

\* fetch_cost_by_url.py find_key: None is both "not found" and a found null
RECURSIVE find_key(_, _), find_key_in(_, _, _)
find_key(d, key) ==
    CASE IsDict(d) -> IF HasKey(d, key) THEN Lookup(d, key)
                      ELSE find_key_in(DictValues(d), key, 1)
      [] IsList(d) -> find_key_in(d.elems, key, 1)
      [] OTHER -> JNull
find_key_in(vals, key, i) ==
    IF i > Len(vals) THEN JNull
    ELSE LET r == find_key(vals[i], key)
         IN  IF ~IsNone(r) THEN r ELSE find_key_in(vals, key, i + 1)

----------------------------------------------------------------------------
(* Numeric token of the price regexes                                      *)

\* the rupee sign U+20B9, written as an atom
Rupee == "RUPEE"
Percent == "%"
Comma == ","

\* the negative lookahead (?!\d|%) before s[p]
LookaheadOk(s, p) == p > Len(s) \/ (~IsDigit(s[p]) /\ s[p] # Percent)

\* length of the run of [\d,] starting at i (the greedy [\d,]*)
RECURSIVE DigitCommaRun(_, _)
DigitCommaRun(s, i) ==
    IF i <= Len(s) /\ (IsDigit(s[i]) \/ s[i] = Comma)
    THEN 1 + DigitCommaRun(s, i + 1) ELSE 0

DigitAt(s, i) == i >= 1 /\ i <= Len(s) /\ IsDigit(s[i])

\* with the integer part ending at e: the end of the token, trying the decimal
\* part \.\d{1,2} with two digits, with one digit, then without it; 0: no match
TokenEndWithInt(s, e) ==
    IF e + 1 <= Len(s) /\ s[e + 1] = Period /\ DigitAt(s, e + 2) /\ DigitAt(s, e + 3)
       /\ LookaheadOk(s, e + 4)
    THEN e + 3
    ELSE IF e + 1 <= Len(s) /\ s[e + 1] = Period /\ DigitAt(s, e + 2)
            /\ LookaheadOk(s, e + 3)
    THEN e + 2
    ELSE IF LookaheadOk(s, e + 1)
    THEN e
    ELSE 0

\* the integer part \d[\d,]* is tried from its longest form (run characters
\* after the first digit) down to the first digit alone
RECURSIVE TokenEndFrom(_, _, _)
TokenEndFrom(s, i, run) ==
    IF TokenEndWithInt(s, i + run) # 0 THEN TokenEndWithInt(s, i + run)
    ELSE IF run = 0 THEN 0
    ELSE TokenEndFrom(s, i, run - 1)

\* the group without its decimal part: (\d[\d,]*)(?!\d|%)
RECURSIVE TokenEndFromNoDecimal(_, _, _)
TokenEndFromNoDecimal(s, i, run) ==
    IF LookaheadOk(s, i + run + 1) THEN i + run
    ELSE IF run = 0 THEN 0
    ELSE TokenEndFromNoDecimal(s, i, run - 1)

TokenEndNoDecimal(s, i) ==
    IF DigitAt(s, i) THEN TokenEndFromNoDecimal(s, i, DigitCommaRun(s, i + 1)) ELSE 0

\* (\d[\d,]*(?:\.\d{1,2})?)(?!\d|%) matched at i: index of the last character
\* of the group, 0 when it does not match there
TokenEnd(s, i) ==
    IF DigitAt(s, i) THEN TokenEndFrom(s, i, DigitCommaRun(s, i + 1)) ELSE 0

\* str.replace(",", "")
RemoveCommas(s) == SelectSeq(s, LAMBDA c : c # Comma)

\* one optional character of class C at q
SkipOptional(s, q, C) == IF q <= Len(s) /\ s[q] \in C THEN q + 1 ELSE q

SkipWs(s, q) == q + WsRun(s, q)

\* where the numeric group starts when the pattern is tried at p (0: the prefix
\* does not match at p).  The classes of the prefix are disjoint from each
\* other and from \d, so the greedy parse is the only one.
\* strategy 3: [₹]?\s*
MarkedPrefix(s, p) == SkipWs(s, SkipOptional(s, p, {Rupee}))

\* strategy 4: MRP\s*[:\-]?\s*[₹]?\s*  with re.I
IsMrpAt(s, p) ==
    /\ p >= 1 /\ p + 2 <= Len(s)
    /\ s[p] \in {"M", "m"} /\ s[p + 1] \in {"R", "r"} /\ s[p + 2] \in {"P", "p"}

KeywordPrefix(s, p) ==
    IF IsMrpAt(s, p)
    THEN SkipWs(s, SkipOptional(s, SkipWs(s, SkipOptional(s, SkipWs(s, p + 3),
                                                        {":", "-"})), {Rupee}))
    ELSE 0

\* strategy 5: [₹]\s*
CurrencyPrefix(s, p) ==
    IF p <= Len(s) /\ s[p] = Rupee THEN SkipWs(s, p + 1) ELSE 0

NoMatch == [found |-> FALSE, text |-> <<>>]

\* re.search / re.findall(...)[0]: the group of the leftmost match.
\* starts[p] is where the group starts when the pattern is tried at p.
FirstGroup(s, starts) ==
    LET hits == {p \in 1..Len(s) : starts[p] # 0 /\ TokenEnd(s, starts[p]) # 0}
    IN  IF hits = {} THEN NoMatch
        ELSE LET q == starts[SetMin(hits)]
             IN  [found |-> TRUE, text |-> SubSeq(s, q, TokenEnd(s, q))]

MarkedSearch(s) == FirstGroup(s, [p \in 1..Len(s) |-> MarkedPrefix(s, p)])
KeywordSearch(s) == FirstGroup(s, [p \in 1..Len(s) |-> KeywordPrefix(s, p)])
CurrencySearch(s) == FirstGroup(s, [p \in 1..Len(s) |-> CurrencyPrefix(s, p)])

----------------------------------------------------------------------------
(* The parsed document (soup)                                              *)
(*   next_data : the tag soup.find("script", id="__NEXT_DATA__")           *)
(*   ld_json   : the tags soup.find_all("script", type="application/ld+json") *)
(*   body      : the elements with visible text, in document order         *)
(* A script tag is given by its .string (None when the tag has no single   *)
(* string child) and by what json.loads makes of that string.              *)

NoTag == [tag |-> "absent"]
ScriptNoString == [tag |-> "nostring"]          \* tag.string is None
ScriptBadJson == [tag |-> "badjson"]            \* json.loads raises JSONDecodeError
ScriptJson(d) == [tag |-> "json", data |-> d]   \* json.loads returns d

Element(c, ip, t) == [cls |-> c, itemprop |-> ip, text |-> t]

\* what one strategy comes to
Value(t) == [kind |-> "value", text |-> t]
Nothing == [kind |-> "nothing", text |-> <<>>]
Raises == [kind |-> "raise", text |-> <<>>]     \* an exception no except clause catches
Aborts == [kind |-> "abort", text |-> <<>>]     \* AttributeError, caught around the script

\* 1. __NEXT_DATA__
NextDataStrategy(soup) ==
    LET next_data_tag == soup.next_data
    IN  CASE next_data_tag.tag = "absent" -> Nothing
          [] next_data_tag.tag = "nostring" -> Raises      \* json.loads(None): TypeError
          [] next_data_tag.tag = "badjson" -> Nothing      \* except json.JSONDecodeError
          [] next_data_tag.tag = "json" ->
                LET data == next_data_tag.data
                IN  IF ~IsDict(data) THEN Nothing           \* except AttributeError
                    ELSE LET props == DictGet(data, "props", JDict(<<>>))
                         IN  IF ~IsDict(props) THEN Nothing \* except AttributeError
                             ELSE LET page_props == DictGet(props, "pageProps", JDict(<<>>))
                                      mrp == PyOr(find_key(page_props, "mrp"),
                                                  find_key(page_props, "MRP"))
                                  IN  IF Truthy(mrp) THEN Value(PyStr(mrp)) ELSE Nothing

\* price = offers.get("price") or offers.get("highPrice"): the plain price first
OfferPricePlainFirst(offer) ==
    PyOr(DictGet(offer, "price", JNull), DictGet(offer, "highPrice", JNull))

\* price = offers.get("highPrice") or offers.get("price")
OfferPrice(offer) ==
    PyOr(DictGet(offer, "highPrice", JNull), DictGet(offer, "price", JNull))

OfferOutcome(offer) ==
    IF ~IsDict(offer) THEN Aborts                           \* .get on a non-dict
    ELSE IF Truthy(OfferPrice(offer)) THEN Value(PyStr(OfferPrice(offer)))
    ELSE Nothing

\* the body of "for item in items"
ItemOutcome(item) ==
    IF ~IsDict(item) THEN Nothing
    ELSE LET offers == DictGet(item, "offers", JDict(<<>>))
         IN  CASE IsDict(offers) -> OfferOutcome(offers)
               [] IsList(offers) /\ Truthy(offers) -> OfferOutcome(offers.elems[1])
               [] OTHER -> Nothing

RECURSIVE ItemsFrom(_, _)
ItemsFrom(items, j) ==
    IF j > Len(items) THEN Nothing
    ELSE IF ItemOutcome(items[j]).kind = "nothing" THEN ItemsFrom(items, j + 1)
    ELSE ItemOutcome(items[j])

\* the body of "for script in soup.find_all(...)"
ScriptOutcome(script) ==
    CASE script.tag = "nostring" -> Raises                  \* json.loads(None): TypeError
      [] script.tag = "badjson" -> Nothing                  \* continue
      [] script.tag = "json" ->
            LET data == script.data
                items == IF IsList(data) THEN data.elems ELSE <<data>>
            IN  IF ItemsFrom(items, 1).kind = "abort" THEN Nothing   \* continue
                ELSE ItemsFrom(items, 1)

RECURSIVE ScriptsFrom(_, _)
ScriptsFrom(scripts, i) ==
    IF i > Len(scripts) THEN Nothing
    ELSE IF ScriptOutcome(scripts[i]).kind = "nothing" THEN ScriptsFrom(scripts, i + 1)
    ELSE ScriptOutcome(scripts[i])

\* 2. JSON-LD structured data
JsonLdStrategy(soup) == ScriptsFrom(soup.ld_json, 1)

\* the class patterns of the selectors, in order; the sixth selector is
\* {"itemprop": "price"}
SelectorClasses ==
    <<"price-tag", "DrugHeader__price", "ProductCard__price", "style__price-tag", "PriceBox">>

NumSelectors == 6

\* re.compile(pattern, re.I).search(cls), for the class names of the model
ClassMatches(pattern, cls) ==
    \/ cls = pattern
    \/ pattern = "price-tag" /\ cls = "style__price-tag"
    \/ pattern = "PriceBox" /\ cls = "pricebox"

SelectorMatches(k, el) ==
    IF k <= Len(SelectorClasses) THEN ClassMatches(SelectorClasses[k], el.cls)
    ELSE el.itemprop = "price"

\* soup.find(attrs=sel): index of the first matching element, 0 when none
FindTag(soup, k) ==
    LET hits == {i \in 1..Len(soup.body) : SelectorMatches(k, soup.body[i])}
    IN  IF hits = {} THEN 0 ELSE SetMin(hits)

\* tag.get_text(strip=True)
GetTextStripped(el) == Strip(el.text)

RECURSIVE SelectorsFrom(_, _)
SelectorsFrom(soup, k) ==
    IF k > NumSelectors THEN Nothing
    ELSE IF FindTag(soup, k) # 0
            /\ MarkedSearch(GetTextStripped(soup.body[FindTag(soup, k)])).found
    THEN Value(RemoveCommas(
             MarkedSearch(GetTextStripped(soup.body[FindTag(soup, k)])).text))
    ELSE SelectorsFrom(soup, k + 1)

\* 3. common 1mg CSS class names
SelectorStrategy(soup) == SelectorsFrom(soup, 1)

\* soup.get_text(): the text of the elements, concatenated
RECURSIVE ConcatText(_, _)
ConcatText(body, i) ==
    IF i > Len(body) THEN <<>> ELSE body[i].text \o ConcatText(body, i + 1)

GetText(soup) == ConcatText(soup.body, 1)

\* 4. scan all text for "MRP ₹xxx"
KeywordStrategy(soup) ==
    IF KeywordSearch(GetText(soup)).found
    THEN Value(RemoveCommas(KeywordSearch(GetText(soup)).text))
    ELSE Nothing

\* 5. generic ₹ price scan
CurrencyStrategy(soup) ==
    IF CurrencySearch(GetText(soup)).found
    THEN Value(RemoveCommas(CurrencySearch(GetText(soup)).text))
    ELSE Nothing

----------------------------------------------------------------------------
(* extract_mrp_from_html, one step per strategy                            *)

Returned(t) == [kind |-> "str", text |-> t]
ReturnedNone == [kind |-> "None", text |-> <<>>]
RaisedTypeError == [kind |-> "TypeError", text |-> <<>>]
Pending == [kind |-> "pending", text |-> <<>>]

\* a strategy came to outcome o; next is the position after it
Step(o, next) ==
    /\ epc' = CASE o.kind = "value" -> "returned"
                [] o.kind = "raise" -> "raised"
                [] OTHER -> next
    /\ result' = CASE o.kind = "value" -> Returned(o.text)
                   [] o.kind = "raise" -> RaisedTypeError
                   [] OTHER -> result
    /\ UNCHANGED <<doc, canonVars, resolverVars, crawlVars, updateVars, finderVars>>

TryNextData ==
    /\ epc = "next_data"
    /\ Step(NextDataStrategy(doc), "ld_json")

TryJsonLd ==
    /\ epc = "ld_json"
    /\ Step(JsonLdStrategy(doc), "selectors")

TrySelectors ==
    /\ epc = "selectors"
    /\ Step(SelectorStrategy(doc), "mrp_scan")

TryKeywordScan ==
    /\ epc = "mrp_scan"
    /\ Step(KeywordStrategy(doc), "rupee_scan")

TryCurrencyScan ==
    /\ epc = "rupee_scan"
    /\ Step(CurrencyStrategy(doc), "return_none")

\* return None
ReturnNone ==
    /\ epc = "return_none"
    /\ epc' = "returned"
    /\ result' = ReturnedNone
    /\ UNCHANGED <<doc, canonVars, resolverVars, crawlVars, updateVars, finderVars>>

NextExtract ==
    \/ TryNextData
    \/ TryJsonLd
    \/ TrySelectors
    \/ TryKeywordScan
    \/ TryCurrencyScan
    \/ ReturnNone

----------------------------------------------------------------------------
(* Inputs of the extraction chain                                          *)

Chars149_02 == <<"1", "4", "9", ".", "0", "2">>
Chars149 == <<"1", "4", "9">>
Chars199 == <<"1", "9", "9">>
Chars1299 == <<"1", ",", "2", "9", "9", ".", "0", "0">>
CharsNA == <<"N", "/", "A">>
Rupee99 == <<Rupee, "9", "9">>
Rupee149_029 == <<Rupee, "1", "4", "9", ".", "0", "2", "9">>
Rupee12_5Percent == <<Rupee, "1", "2", ".", "5", Percent>>

\* "Save 20% more, MRP ₹149.02"
SaveText ==
    <<"S", "a", "v", "e", " ", "2", "0", "%", " ", "m", "o", "r", "e", ",", " ",
      "M", "R", "P", " ", Rupee, "1", "4", "9", ".", "0", "2">>

Entry(key, val) == [k |-> key, v |-> val]

Leaves == {JNull, JInt(0), JInt(149), JFloat(99, 50), JStr(Chars149_02), JStr(CharsNA)}

Keys == {"mrp", "MRP", "x"}

\* the leaves, and single-entry dicts and lists up to depth d around them
RECURSIVE Trees(_)
Trees(d) ==
    IF d = 0 THEN Leaves
    ELSE Leaves
         \cup {JDict(<<Entry(key, val)>>) : key \in Keys, val \in Trees(d - 1)}
         \cup {JList(<<val>>) : val \in Trees(d - 1)}
         \cup {JList(<<>>)}

PairValues ==
    {JNull, JInt(0), JStr(Chars149_02), JStr(Chars199), JDict(<<Entry("mrp", JInt(7))>>)}

\* dicts of two entries
PairTrees ==
    {JDict(<<Entry(k1, v1), Entry(k2, v2)>>) :
        k1 \in Keys, k2 \in Keys, v1 \in PairValues, v2 \in PairValues} \
    {JDict(<<Entry(k1, v1), Entry(k1, v2)>>) :
        k1 \in Keys, v1 \in PairValues, v2 \in PairValues}

PagePropsTrees == Trees(MaxDepth) \cup PairTrees

WithPageProps(t) ==
    ScriptJson(JDict(<<Entry("props", JDict(<<Entry("pageProps", t)>>))>>))

\* __NEXT_DATA__ tags that hold no price
QuietNextData ==
    {NoTag, ScriptBadJson, ScriptJson(JList(<<>>)), ScriptJson(JDict(<<>>)),
     ScriptJson(JDict(<<Entry("props", JNull)>>)),
     ScriptJson(JDict(<<Entry("props", JDict(<<>>))>>))}

NextDataTags ==
    QuietNextData \cup {ScriptNoString} \cup {WithPageProps(t) : t \in PagePropsTrees}

HighPriceEntries ==
    {Entry("highPrice", val) : val \in {JNull, JInt(0), JStr(Chars199), JStr(Chars1299)}}

PriceEntry == Entry("price", JStr(Chars149))

Offers ==
    {JDict(<<>>), JDict(<<PriceEntry>>)}
    \cup {JDict(<<h>>) : h \in HighPriceEntries}
    \cup {JDict(<<PriceEntry, h>>) : h \in HighPriceEntries}

OffersValues ==
    Offers
    \cup {JList(<<>>), JList(<<JStr(CharsNA)>>), JStr(CharsNA)}
    \cup {JList(<<o>>) : o \in Offers}

ItemWithPrice == JDict(<<Entry("offers", JDict(<<PriceEntry>>))>>)
ItemWithoutOffers == JDict(<<Entry("name", JStr(CharsNA))>>)
ItemBadOffers == JDict(<<Entry("offers", JList(<<JStr(CharsNA)>>))>>)

Items ==
    {JDict(<<Entry("offers", o)>>) : o \in OffersValues}
    \cup {ItemWithoutOffers, JStr(CharsNA)}

SmallItems == {ItemWithPrice, ItemWithoutOffers, ItemBadOffers}

LdData ==
    Items
    \cup {JList(<<a, b>>) : a \in SmallItems, b \in SmallItems}
    \cup {JList(<<>>)}

LdScripts == {ScriptNoString, ScriptBadJson} \cup {ScriptJson(d) : d \in LdData}

SmallLdScripts ==
    {ScriptNoString, ScriptBadJson, ScriptJson(ItemWithPrice), ScriptJson(ItemBadOffers)}

\* up to MaxScripts script tags: any first one, then small ones
LdSeqs ==
    {<<>>} \cup {<<a>> \o rest : a \in LdScripts,
                                rest \in StrsUpTo(SmallLdScripts, MaxScripts - 1)}

TokenAlphabet == {"7", Period, Comma, Percent, Rupee}

TextPrefixes == {<<>>, <<"M", "R", "P", " ">>, <<"m", "r", "p", ":">>}

Texts == {pre \o t : pre \in TextPrefixes, t \in StrsUpTo(TokenAlphabet, MaxText)}

SmallTexts == {<<>>, Rupee99, <<"2", "0", "%">>, <<"M", "R", "P", " ", Rupee, "7">>}

\* plain text, and elements the selectors find
ElementKinds ==
    {<<"", "">>, <<"style__price-tag", "">>, <<"PriceBox", "">>, <<"", "price">>}

Elements(texts) == {Element(kind[1], kind[2], t) : kind \in ElementKinds, t \in texts}

Bodies ==
    {<<>>}
    \cup {<<el>> : el \in Elements(Texts)}
    \cup {<<e1, e2>> : e1 \in Elements(SmallTexts), e2 \in Elements(SmallTexts)}

MarkedRupee99 == <<Element("price-tag", "", Rupee99)>>

Doc(nd, ld, b) == [next_data |-> nd, ld_json |-> ld, body |-> b]

Documents ==
    \* the embedded payload varies
    {Doc(nd, ld, b) : nd \in NextDataTags,
                      ld \in {<<>>, <<ScriptJson(ItemWithPrice)>>},
                      b \in {<<>>, MarkedRupee99}}
    \* the linked structured data varies
    \cup {Doc(nd, ld, b) : nd \in {NoTag, ScriptJson(JDict(<<>>))},
                           ld \in LdSeqs,
                           b \in {<<>>, MarkedRupee99}}
    \* the visible text varies
    \cup {Doc(NoTag, <<>>, b) : b \in Bodies}
    \* "Save 20% more, MRP ₹149.02" is the only price signal
    \cup {Doc(nd, ld, <<el>>) : nd \in QuietNextData,
                                ld \in {<<>>, <<ScriptBadJson>>},
                                el \in Elements({SaveText})}
    \* a price with three decimals, and a percentage
    \cup {Doc(NoTag, <<>>, <<el>>) : el \in Elements({Rupee149_029, Rupee12_5Percent})}

InitExtract ==
    /\ doc \in Documents
    /\ result = Pending
    /\ epc = "next_data"
    /\ CanonIdle
    /\ ResolverIdle
    /\ CrawlIdle
    /\ UpdateIdle
    /\ FinderIdle

SpecExtract == InitExtract /\ [][NextExtract]_vars

----------------------------------------------------------------------------
(* Claims about the extraction chain                                       *)

Finished == epc \in {"returned", "raised"}

\* some dict of the value has one of the keys
RECURSIVE HoldsKey(_, _), HoldsKeyIn(_, _, _)
HoldsKey(v, keys) ==
    CASE IsDict(v) -> (\E i \in 1..Len(v.items) : v.items[i].k \in keys)
                      \/ HoldsKeyIn(DictValues(v), keys, 1)
      [] IsList(v) -> HoldsKeyIn(v.elems, keys, 1)
      [] OTHER -> FALSE
HoldsKeyIn(vals, keys, i) ==
    i <= Len(vals) /\ (HoldsKey(vals[i], keys) \/ HoldsKeyIn(vals, keys, i + 1))

ScriptHoldsKey(tg, keys) == tg.tag = "json" /\ HoldsKey(tg.data, keys)

\* no mrp field, no offer price, no digit in the visible text
NoPriceSignal(d) ==
    /\ ~ScriptHoldsKey(d.next_data, {"mrp", "MRP"})
    /\ \A i \in 1..Len(d.ld_json) : ~ScriptHoldsKey(d.ld_json[i], {"highPrice", "price"})
    /\ \A i \in 1..Len(GetText(d)) : ~IsDigit(GetText(d)[i])

\* C7: extract_mrp_from_html never raises, however malformed the document
\* (an empty or non-JSON script block, a payload of an unexpected shape), and
\* returns None for a document with no recognizable price signal.
C7_NeverRaises ==
    /\ epc # "raised"
    /\ (epc = "returned" /\ NoPriceSignal(doc)) => result = ReturnedNone

\* the five strategies in the order of the claim: embedded payload, linked
\* structured data, marked price element, keyword-anchored scan, currency scan
C8_Outcomes(d) ==
    <<NextDataStrategy(d), JsonLdStrategy(d), SelectorStrategy(d),
      KeywordStrategy(d), CurrencyStrategy(d)>>

C8_FirstValue(d) ==
    LET produced == {k \in 1..5 : C8_Outcomes(d)[k].kind = "value"}
    IN  IF produced = {} THEN ReturnedNone
        ELSE Returned(C8_Outcomes(d)[SetMin(produced)].text)

\* C8: the chain returns the value of the first strategy, in the order embedded
\* payload, linked structured data, marked price element, keyword-anchored
\* scan, generic currency scan, that produces a value; a strategy that produces
\* nothing is followed by the next one.
C8_FirstStrategyWins == Finished => result = C8_FirstValue(doc)

QuietScripts(d) ==
    /\ d.next_data \in QuietNextData
    /\ \A i \in 1..Len(d.ld_json) : d.ld_json[i] = ScriptBadJson

\* C9: for a document whose only price signal is the visible text
\* "Save 20% more, MRP ₹149.02" the chain returns "149.02".
C9_SaveTwentyPercent ==
    (GetText(doc) = SaveText /\ QuietScripts(doc)) =>
        /\ epc # "raised"
        /\ epc = "returned" => result = Returned(Chars149_02)

\* the text is plain text, so the keyword-anchored scan found the price
C9_Witness ==
    /\ epc = "returned"
    /\ GetText(doc) = SaveText
    /\ doc.body[1].cls = "" /\ doc.body[1].itemprop = ""
    /\ result = Returned(Chars149_02)

\* digits with at most one decimal point, and at least one digit
IsNonNegativeDecimal(t) ==
    /\ \A i \in 1..Len(t) : IsDigit(t[i]) \/ t[i] = Period
    /\ \E i \in 1..Len(t) : IsDigit(t[i])
    /\ Cardinality({i \in 1..Len(t) : t[i] = Period}) <= 1

\* C10: whenever the chain returns a value, from any strategy, the value is a
\* string parseable as a non-negative decimal, without thousands separators.
C10_ReturnsDecimal == result.kind = "str" => IsNonNegativeDecimal(result.text)

----------------------------------------------------------------------------
(* Claims about the canonicalizer                                          *)

Canonicalized == cpc \in {"canonical", "recanonical"}

\* C1: canonicalization is idempotent: normalize(normalize(x)) = normalize(x)
\* for every raw name x.
C1_Idempotent == cpc = "recanonical" => recanon = canon

\* the other case of a letter
SwapCase(c) ==
    CASE c = "g" -> "G"
      [] c = "G" -> "g"
      [] c = "m" -> "M"
      [] c = "M" -> "m"
      [] c = "p" -> "P"
      [] c = "P" -> "p"
      [] OTHER -> c

\* x with the case of one letter changed
CaseVariants(x) ==
    {[x EXCEPT ![i] = SwapCase(x[i])] : i \in {j \in 1..Len(x) : SwapCase(x[j]) # x[j]}}

\* x with one whitespace character put before or after it
SurroundVariants(x) ==
    {<<w>> \o x : w \in {Space, Tab}} \cup {Append(x, w) : w \in {Space, Tab}}

\* x with one whitespace character put in after a digit that is followed, with
\* or without whitespace, by a unit abbreviation ending at a word boundary
UnitSpacingVariants(x) ==
    {SubSeq(x, 1, i) \o <<w>> \o SubSeq(x, i + 1, Len(x)) :
        i \in {j \in 1..Len(x) :
                  /\ IsDigit(x[j])
                  /\ UnitAt(Lower(x), j + 1 + WsRun(x, j + 1)) # 0},
        w \in {Space, Tab}}

Variants(x) == CaseVariants(x) \cup SurroundVariants(x) \cup UnitSpacingVariants(x)

\* C2: raw names that differ only in letter case, in surrounding whitespace or
\* in the whitespace between a number and a following unit abbreviation have
\* the same canonical name; "Paracetamol   500 MG." and "paracetamol 500mg"
\* both canonicalize to "paracetamol 500mg".
C2_SameCanonicalName ==
    Canonicalized =>
        /\ \A y \in Variants(raw) : normalize(y) = canon
        /\ raw \in {Paracetamol500MG, paracetamol500mg} => canon = paracetamol500mg

\* a raw name with a letter, a digit and a spaced unit is canonicalized
C2_Witness ==
    /\ cpc = "canonical"
    /\ CaseVariants(raw) # {}
    /\ UnitSpacingVariants(raw) # {}
    /\ WsRun(raw, 2) > 0
    /\ canon # raw

IsStray(c) == c \in {Backtick, Period}

CanonicalShape(s) ==
    /\ Lower(s) = s
    /\ \A i \in 1..Len(s) : IsSpace(s[i]) => i > 1 /\ i < Len(s) /\ ~IsSpace(s[i + 1])
    /\ s # <<>> => ~IsStray(s[1]) /\ ~IsStray(s[Len(s)])

\* C3: every string normalize or clean_med returns is lower-case, has no run
\* of two or more whitespace characters, no leading or trailing whitespace,
\* and neither starts nor ends with a backtick or a period.
C3_CanonicalShape ==
    /\ cpc # "raw" => CanonicalShape(cleaned)
    /\ Canonicalized => CanonicalShape(canon)

\* C4: a canonical name never holds a digit, then whitespace, then a unit
\* abbreviation that ends at a word boundary.
C4_UnitsAdjacent ==
    Canonicalized =>
        \A i \in 1..Len(canon) :
            ~ /\ IsDigit(canon[i])
              /\ WsRun(canon, i + 1) > 0
              /\ UnitAt(canon, i + 1 + WsRun(canon, i + 1)) # 0

----------------------------------------------------------------------------
(* Match classifier: similarity_score                                      *)
(* difflib.SequenceMatcher(None, a, b).ratio(), no junk; the strings are    *)
(* far shorter than the 200 characters at which autojunk sets in.           *)
(* A score is kept exact, as the fraction num / den.                        *)

\* length of the common run that ends at a[i] and b[j] and stays inside
\* a[alo..] and b[blo..]  (j2len of find_longest_match)
RECURSIVE RunLen(_, _, _, _, _, _)
RunLen(a, b, i, j, alo, blo) ==
    IF i < alo \/ j < blo THEN 0
    ELSE IF a[i] # b[j] THEN 0
    ELSE 1 + RunLen(a, b, i - 1, j - 1, alo, blo)

\* SequenceMatcher.find_longest_match(alo, ahi, blo, bhi), both ends inclusive
\* here: the longest block; of the longest, the one starting earliest in a; of
\* those, the one starting earliest in b
find_longest_match(a, b, alo, ahi, blo, bhi) ==
    LET ends == (alo..ahi) \X (blo..bhi)
        len(e) == RunLen(a, b, e[1], e[2], alo, blo)
        lens == {len(e) : e \in ends}
        bestsize == IF lens = {} THEN 0 ELSE SetMax(lens)
        besti == SetMin({e[1] : e \in {x \in ends : len(x) = bestsize}})
        bestj == SetMin({e[2] : e \in {x \in ends : len(x) = bestsize /\ x[1] = besti}})
    IN  IF bestsize = 0 THEN [i |-> alo, j |-> blo, size |-> 0]
        ELSE [i |-> besti - bestsize + 1, j |-> bestj - bestsize + 1, size |-> bestsize]

\* SequenceMatcher.get_matching_blocks: the sizes of the blocks, summed; the
\* longest block, then the same to its left and to its right
RECURSIVE MatchingCount(_, _, _, _, _, _)
MatchingCount(a, b, alo, ahi, blo, bhi) ==
    IF alo > ahi \/ blo > bhi THEN 0
    ELSE LET m == find_longest_match(a, b, alo, ahi, blo, bhi)
         IN  IF m.size = 0 THEN 0
             ELSE m.size
                  + MatchingCount(a, b, alo, m.i - 1, blo, m.j - 1)
                  + MatchingCount(a, b, m.i + m.size, ahi, m.j + m.size, bhi)

\* SequenceMatcher.ratio(): 2.0 * matches / length, and 1.0 when length is 0
ratio(a, b) ==
    IF Len(a) + Len(b) = 0 THEN [num |-> 1, den |-> 1]
    ELSE [num |-> 2 * MatchingCount(a, b, 1, Len(a), 1, Len(b)), den |-> Len(a) + Len(b)]

\* the ratio taken of the strings as given, neither case-folded nor trimmed
similarity_score_as_given(a, b) == ratio(a, b)

similarity_score(a, b) == ratio(Strip(Lower(a)), Strip(Lower(b)))

\* score >= t / 10, for the thresholds 0.9 and 0.6 of crawl_medicines
AtLeastTenths(score, t) == 10 * score.num >= t * score.den

\* round(score, 2) in hundredths: the nearest hundredth; when the fraction lies
\* midway between two hundredths the binary value of the float decides, and either
\* neighbour may come out
Round2(score) ==
    LET q == (100 * score.num) \div score.den
        r == (100 * score.num) % score.den
    IN  IF 2 * r < score.den THEN {q}
        ELSE IF 2 * r > score.den THEN {q + 1}
        ELSE {q, q + 1}

----------------------------------------------------------------------------
(* Search crawlers: clean_price and the parsing of a search page           *)
(* tata1mg_crawler.py is the "regex" implementation, tata1mg_crawler_bs4.py *)
(* the "bs4" implementation.                                                *)

NoneValue == [kind |-> "None", text |-> <<>>]
StrValue(t) == [kind |-> "str", text |-> t]

\* a float is mant / 10^exp with no trailing zero in its fraction
NoFloat == [kind |-> "None", mant |-> 0, exp |-> 0]
FloatValue(m, e) == [kind |-> "float", mant |-> m, exp |-> e]

\* truth value of a name (None and '' are false) and of a price (None and 0.0)
NameTruthy(v) == v.kind = "str" /\ v.text # <<>>
FloatTruthy(f) == f.kind = "float" /\ f.mant # 0

DigitValue(c) == CHOOSE d \in 0..9 : DigitChars[d + 1] = c

RECURSIVE DigitsToNat(_)
DigitsToNat(s) ==
    IF s = <<>> THEN 0
    ELSE 10 * DigitsToNat(SubSeq(s, 1, Len(s) - 1)) + DigitValue(s[Len(s)])

RECURSIVE Normalised(_, _)
Normalised(m, e) ==
    IF e > 0 /\ m % 10 = 0 THEN Normalised(m \div 10, e - 1) ELSE FloatValue(m, e)

\* float(s) for s of digits and periods: ValueError (None here) unless s has a
\* digit and at most one period
ParseFloat(s) ==
    LET dots == {i \in 1..Len(s) : s[i] = Period}
        digits == SelectSeq(s, IsDigit)
    IN  IF Cardinality(dots) > 1 \/ digits = <<>> THEN NoFloat
        ELSE Normalised(DigitsToNat(digits),
                        IF dots = {} THEN 0 ELSE Len(s) - SetMin(dots))

\* re.sub(r'[^\d.]', '', str(price_text))
DigitsAndPeriods(s) == SelectSeq(s, LAMBDA c : IsDigit(c) \/ c = Period)

clean_price(price_text) ==
    IF price_text.kind = "None" \/ price_text.text = <<>> THEN NoFloat
    ELSE ParseFloat(DigitsAndPeriods(price_text.text))

SearchResult(n, m, s) == [product_name |-> n, mrp |-> m, score |-> s]

\* return None, None, 0.0
NoResult == SearchResult(NoneValue, NoFloat, [num |-> 0, den |-> 1])

\* search_tata1mg on a 200 response.  The page is given by what the patterns
\* find in it: matches (product_pattern: pairs of data-name and data-price),
\* price_matches (mrp_pattern) and name_matches (name_pattern).
ParseRegex(medicine_name, page) ==
    IF page.matches # <<>>
    THEN LET m == page.matches[1]
         IN  SearchResult(StrValue(m.name), clean_price(StrValue(m.price)),
                          similarity_score(medicine_name, m.name))
    ELSE IF page.price_matches # <<>>
    THEN LET product_name == IF page.name_matches # <<>> THEN page.name_matches[1]
                             ELSE medicine_name
         IN  SearchResult(StrValue(product_name),
                          clean_price(StrValue(page.price_matches[1])),
                          similarity_score(medicine_name, product_name))
    ELSE NoResult

\* products[:3]
TopResults == 3

\* search_tata1mg_bs4, one product card.  name is the text of the name element
\* (or its data-name), None without such an element; mrp_text the text of the
\* MRP element, None without one; data_price and data_name the attributes of
\* the card.
ProductName(p) == IF ~NameTruthy(p.name) /\ NameTruthy(p.data_name) THEN p.data_name ELSE p.name

ProductMrp(p) ==
    LET mrp == IF p.mrp_text.kind = "str" THEN clean_price(p.mrp_text) ELSE NoFloat
    IN  IF ~FloatTruthy(mrp) /\ NameTruthy(p.data_price) THEN clean_price(p.data_price) ELSE mrp

\* for product in products[:3]: the first card with a name and a price, from card k
RECURSIVE ProductsFrom(_, _, _)
ProductsFrom(medicine_name, products, k) ==
    IF k > Len(products) \/ k > TopResults THEN NoResult
    ELSE IF NameTruthy(ProductName(products[k])) /\ FloatTruthy(ProductMrp(products[k]))
    THEN SearchResult(ProductName(products[k]), ProductMrp(products[k]),
                      similarity_score(medicine_name, ProductName(products[k]).text))
    ELSE ProductsFrom(medicine_name, products, k + 1)

\* search_tata1mg_bs4 on a 200 response: the product cards, then any price
\* (all_prices) with any heading (all_names: their stripped texts)
ParseBs4(medicine_name, page) ==
    LET card == ProductsFrom(medicine_name, page.products, 1)
    IN  IF card # NoResult THEN card
        ELSE IF page.all_prices # <<>> /\ page.all_names # <<>>
        THEN SearchResult(StrValue(page.all_names[1]),
                          clean_price(StrValue(page.all_prices[1])),
                          similarity_score(medicine_name, page.all_names[1]))
        ELSE NoResult

ParsePage(i, medicine_name, page) ==
    IF i = "regex" THEN ParseRegex(medicine_name, page) ELSE ParseBs4(medicine_name, page)

----------------------------------------------------------------------------
(* Search crawlers: search_tata1mg / search_tata1mg_bs4 and crawl_medicines *)

\* retries=3
retries == 3

\* time.sleep(2) after a timeout
TimeoutDelay == 2

\* a wait that does not grow with the attempt
RateLimitDelayFlat(a) == 5

\* time.sleep((attempt + 1) * 5) after a 429 response
RateLimitDelay(a) == (a + 1) * 5

\* if (idx + 1) % 50 == 0: df.to_excel(output_file)
SaveEvery == 50

\* the match type for a product with a name and a price
match_type(i, score) ==
    IF AtLeastTenths(score, 9) THEN "exact"
    ELSE IF AtLeastTenths(score, 6) THEN "close"
    ELSE IF i = "regex" THEN "not_found"
    ELSE "low_match"

NoScore == [kind |-> "None", hundredths |-> 0]
Score2(h) == [kind |-> "float", hundredths |-> h]

\* the result columns as crawl_medicines adds them to the data frame
EmptyRow ==
    [found_product_name |-> <<>>, mrp_price |-> NoFloat, match_score |-> NoScore,
     match_type |-> ""]

\* one request of the search, as kept in trail
Met(outcome, delay) == [attempt |-> attempt, outcome |-> outcome, delay |-> delay]

Searching == kpc = "search" /\ attempt < retries

\* for idx, row in df.iterrows(): the next row; the search starts at attempt 0.
\* product_name, mrp and score are assigned anew before they are read.
NextRow ==
    /\ kpc = "next_row"
    /\ idx < Len(medicines)
    /\ idx' = idx + 1
    /\ attempt' = 0
    /\ trail' = <<>>
    /\ found' = NoResult
    /\ kpc' = "search"
    /\ UNCHANGED <<impl, medicines, df, saved, canonVars, resolverVars, extractVars, updateVars, finderVars>>

\* the search returns r to crawl_medicines
SearchReturns(r, outcome) ==
    /\ found' = r
    /\ trail' = Append(trail, Met(outcome, 0))
    /\ kpc' = "classify"
    /\ UNCHANGED <<impl, medicines, idx, attempt, df, saved, canonVars, resolverVars, extractVars, updateVars, finderVars>>

\* the search waits and goes to the next attempt
SearchRetries(outcome, delay) ==
    /\ trail' = Append(trail, Met(outcome, delay))
    /\ attempt' = attempt + 1
    /\ UNCHANGED <<impl, medicines, idx, found, df, saved, kpc, canonVars, resolverVars, extractVars, updateVars, finderVars>>

----------------------------------------------------------------------------
(* Inputs of the search crawlers                                           *)

MaxMedicines == 2     \* most rows of an enumerated medicine sheet

Dolo650 == <<"D", "o", "l", "o", " ", "6", "5", "0">>
DoloPadded == <<" ", "d", "o", "l", "o", " ", "6", "5", "0", " ">>
Dolo650mg == <<"D", "o", "l", "o", " ", "6", "5", "0", "m", "g">>
Dolo6Syrup == <<"D", "o", "l", "o", " ", "6", " ", "s", "y", "r", "u", "p">>
Crocin650 == <<"C", "r", "o", "c", "i", "n", " ", "6", "5", "0">>
Crocin651 == <<"C", "r", "o", "c", "i", "n", " ", "6", "5", "1">>
Paracetamol500 ==
    <<"P", "a", "r", "a", "c", "e", "t", "a", "m", "o", "l", " ", "5", "0", "0">>
Paracetamol65 ==
    <<"P", "a", "r", "a", "c", "e", "t", "a", "m", "o", "l", " ", "6", "5">>

Queries == {Dolo650, Crocin650}

ProductNames == {Dolo650, DoloPadded, Dolo650mg, Dolo6Syrup, Crocin650, Crocin651}

Rupee30_5 == <<Rupee, "3", "0", ".", "5">>
Chars30_5 == <<"3", "0", ".", "5">>

PriceTexts == {Rupee30_5, CharsNA, <<"0">>}

RegexPage(m, p, n) == [matches |-> m, price_matches |-> p, name_matches |-> n]

RegexPages ==
    {RegexPage(<<[name |-> n, price |-> p]>>, <<>>, <<>>) : n \in ProductNames, p \in PriceTexts}
    \cup {RegexPage(<<[name |-> Paracetamol65, price |-> Rupee30_5]>>, <<>>, <<>>)}
    \cup {RegexPage(<<>>, p, n) : p \in {<<>>, <<Chars30_5>>, <<<<Period>>>>},
                                  n \in {<<>>, <<Dolo650>>, <<Crocin650>>}}

Card(n, m, dp, dn) == [name |-> n, mrp_text |-> m, data_price |-> dp, data_name |-> dn]

BareCard == Card(NoneValue, NoneValue, NoneValue, NoneValue)

Cards ==
    {Card(StrValue(n), StrValue(p), NoneValue, NoneValue) : n \in ProductNames, p \in PriceTexts}
    \cup {Card(StrValue(Paracetamol65), StrValue(Rupee30_5), NoneValue, NoneValue),
          Card(NoneValue, NoneValue, StrValue(Chars30_5), StrValue(Dolo650)),
          Card(StrValue(Dolo650), NoneValue, NoneValue, NoneValue),
          BareCard}

Bs4Page(c, p, n) == [products |-> c, all_prices |-> p, all_names |-> n]

Bs4Pages ==
    {Bs4Page(<<c>>, <<>>, <<>>) : c \in Cards}
    \cup {Bs4Page(<<BareCard, BareCard, BareCard,
                    Card(StrValue(Dolo650), StrValue(Rupee30_5), NoneValue, NoneValue)>>,
                  <<>>, <<>>),
          Bs4Page(<<BareCard, Card(StrValue(Crocin650), StrValue(Rupee30_5), NoneValue, NoneValue)>>,
                  <<>>, <<>>)}
    \cup {Bs4Page(c, p, n) : c \in {<<>>, <<BareCard>>},
                             p \in {<<>>, <<Rupee30_5>>, <<<<Rupee, "0">>>>},
                             n \in {<<>>, <<Dolo650>>, <<Crocin650>>, <<<<>>>>}}

Pages(i) == IF i = "regex" THEN RegexPages ELSE Bs4Pages

\* sheets of 1..MaxMedicines rows that take the two queries in turn, and a
\* sheet of one longer name
MedicineSheets ==
    {[k \in 1..n |-> IF k % 2 = 1 THEN q ELSE CHOOSE o \in Queries : o # q] :
        n \in 1..MaxMedicines, q \in Queries}
    \cup {<<Paracetamol500>>}

----------------------------------------------------------------------------
(* crawl_medicines, one step per request of the search                     *)

InitCrawl ==
    /\ impl \in {"regex", "bs4"}
    /\ medicines \in MedicineSheets
    /\ idx = 0
    /\ attempt = 0
    /\ trail = <<>>
    /\ found = NoResult
    /\ df = [k \in 1..Len(medicines) |-> EmptyRow]
    /\ saved = <<>>
    /\ kpc = "next_row"
    /\ CanonIdle
    /\ ResolverIdle
    /\ ExtractIdle
    /\ UpdateIdle
    /\ FinderIdle

\* status 200: the page is parsed and the search returns
Search200 ==
    /\ Searching
    /\ \E page \in Pages(impl) :
           SearchReturns(ParsePage(impl, medicines[idx], page), "200")

\* status 429: wait, then the next attempt
SearchRateLimited ==
    /\ Searching
    /\ SearchRetries("429", RateLimitDelay(attempt))

\* any other status: return None, None, 0.0
SearchHttpError ==
    /\ Searching
    /\ SearchReturns(NoResult, "http")

\* requests.exceptions.Timeout: wait, then the next attempt
SearchTimeout ==
    /\ Searching
    /\ SearchRetries("timeout", TimeoutDelay)

\* any other exception (requests.exceptions.ConnectionError among them):
\* return None, None, 0.0
SearchError ==
    /\ Searching
    /\ \E e \in {"ConnectionError", "Exception"} : SearchReturns(NoResult, e)

\* the loop over the attempts ends: return None, None, 0.0
SearchExhausted ==
    /\ kpc = "search"
    /\ attempt = retries
    /\ found' = NoResult
    /\ kpc' = "classify"
    /\ UNCHANGED <<impl, medicines, idx, attempt, trail, df, saved, canonVars, resolverVars, extractVars, updateVars, finderVars>>

\* crawl_medicines: the result columns of the row, the pause, and the save of
\* every 50th row
Classify ==
    /\ kpc = "classify"
    /\ \E h \in Round2(found.score) :
           df' = [df EXCEPT ![idx] =
                     IF NameTruthy(found.product_name) /\ FloatTruthy(found.mrp)
                     THEN [found_product_name |-> found.product_name.text,
                           mrp_price |-> found.mrp,
                           match_score |-> Score2(h),
                           match_type |-> match_type(impl, found.score)]
                     ELSE [EmptyRow EXCEPT !.match_type = "not_found"]]
    /\ saved' = IF idx % SaveEvery = 0 THEN df' ELSE saved
    /\ kpc' = "next_row"
    /\ UNCHANGED <<impl, medicines, idx, attempt, trail, found, canonVars, resolverVars, extractVars, updateVars, finderVars>>

\* df.to_excel(output_file) after the last row
FinalSave ==
    /\ kpc = "next_row"
    /\ idx = Len(medicines)
    /\ saved' = df
    /\ kpc' = "done"
    /\ UNCHANGED <<impl, medicines, idx, attempt, trail, found, df, canonVars, resolverVars, extractVars, updateVars, finderVars>>

NextCrawl ==
    \/ NextRow
    \/ Search200
    \/ SearchRateLimited
    \/ SearchHttpError
    \/ SearchTimeout
    \/ SearchError
    \/ SearchExhausted
    \/ Classify
    \/ FinalSave

SpecCrawl == InitCrawl /\ [][NextCrawl]_vars

\* Ctrl-C while crawl_medicines runs: the searches catch Exception, which
\* KeyboardInterrupt is not, so it leaves crawl_medicines and reaches
\* except KeyboardInterrupt of __main__, which prints a message and saves
\* nothing
KeyboardInterrupt ==
    /\ kpc \in {"next_row", "search", "classify"}
    /\ kpc' = "interrupted"
    /\ UNCHANGED <<impl, medicines, idx, attempt, trail, found, df, saved, canonVars, resolverVars, extractVars, updateVars, finderVars>>

NextCrawlInterrupt == NextCrawl \/ KeyboardInterrupt

SpecCrawlInterrupt == InitCrawl /\ [][NextCrawlInterrupt]_vars

----------------------------------------------------------------------------
(* Claims about the match classifier and the search crawlers               *)

\* crawl_medicines has just filled the result columns of row idx; found still
\* holds what the search returned for it
RowDone == kpc = "next_row" /\ idx >= 1

\* the tier of section 4.4 for a score; tata1mg_crawler_bs4.py spells the low
\* tier low_match
TierLabels(score) ==
    IF AtLeastTenths(score, 9) THEN {"exact"}
    ELSE IF AtLeastTenths(score, 6) THEN {"close"}
    ELSE {"low", "low_match"}

\* C11: the match type of a row is fixed by the similarity score of its
\* candidate (at least 0.90 exact, from 0.60 up to 0.90 close, below 0.60 low),
\* and a row gets not_found only when the search gave no candidate name, in
\* both crawlers.
C11_TierOfScore ==
    RowDone =>
        IF NameTruthy(found.product_name)
        THEN df[idx].match_type \in TierLabels(found.score)
        ELSE df[idx].match_type = "not_found"

\* the pair that crawl_medicines classifies: the search returned a product
\* with a name and a price
Classified == RowDone /\ NameTruthy(found.product_name) /\ FloatTruthy(found.mrp)

RateLimited(k) == trail[k].outcome = "429"

\* the search of the current row is over
SearchOver == kpc \in {"classify", "next_row", "done"} /\ idx >= 1

\* C19: after a 429 response the search asks again for the same row, having
\* waited 5 s after the first request, 10 s after the second, 15 s after the
\* third (a wait that grows with each attempt); no row is asked for more than
\* `retries` (3) times; and when the last of them is rate limited too the
\* search gives the row up: it returns no product and the row is marked
\* not_found, the crawlers' mark of a failed row.
C19_RateLimitBackoff ==
    /\ Len(trail) <= retries
    /\ \A k \in 1..Len(trail) :
           /\ trail[k].attempt = k - 1
           /\ RateLimited(k) => trail[k].delay = 5 * k
    /\ \A j, k \in 1..Len(trail) :
           j < k /\ RateLimited(j) /\ RateLimited(k) => trail[j].delay < trail[k].delay
    /\ SearchOver /\ trail # <<>> /\ RateLimited(Len(trail)) =>
           /\ Len(trail) = retries
           /\ found = NoResult
           /\ kpc # "classify" => df[idx] = [EmptyRow EXCEPT !.match_type = "not_found"]

\* three 429 responses in a row: waits of 5, 10 and 15 s, then the row is
\* marked not_found
C19_Witness ==
    /\ RowDone
    /\ Len(trail) = 3
    /\ \A k \in 1..3 : RateLimited(k)
    /\ df[idx].match_type = "not_found"

Transient(k) == trail[k].outcome \in {"429", "timeout", "ConnectionError"}

\* C20: a timeout, a connection failure or a rate-limit response never ends the
\* search of a row at its first occurrence: the search ends on one only when
\* the attempts are used up, and each wait is longer than the one before.
C20_TransientRetried ==
    /\ SearchOver /\ trail # <<>> /\ Transient(Len(trail)) => Len(trail) = retries
    /\ \A j, k \in 1..Len(trail) :
           j < k /\ Transient(j) /\ Transient(k) => trail[j].delay < trail[k].delay

----------------------------------------------------------------------------
(* fetch_cost_by_url.py as a command: main and get_mrp                     *)
(* An argument is a sequence of symbols; a symbol is one character or a      *)
(* fixed run of characters written as one string.  What the command prints   *)
(* is the sequence of the symbols printed; a fixed phrase of the program is  *)
(* one symbol, which is neither a digit nor whitespace.                      *)

Newline == "\n"

OptMrp == <<"-", "m", "r", "p">>
OptSelenium == <<"-", "-", "selenium">>
OptHelp == <<"-", "h">>

\* the options ArgumentParser knows: -h/--help and --selenium
KnownOptions == {OptSelenium, OptHelp, <<"-", "-", "help">>}

IsOption(arg) == arg # <<>> /\ arg[1] = "-"

\* what a run of the command leaves: exit status, standard output and error
Exit(code, out, err) == [returncode |-> code, stdout |-> out, stderr |-> err]

UsageError == <<"usage: fetch_cost_by_url.py [-h] [--selenium] url", Newline,
                "fetch_cost_by_url.py: error: unrecognized arguments">>

StartsWithHttp(url) == url # <<>> /\ url[1] \in {"http://", "https://"}

\* get_mrp: the page as the web gives it.  web.static is what the request and
\* extract_mrp_from_html come to: "RequestException", or the returned value
\* (a str or None); web.selenium is what extract_mrp_with_selenium returns.
GetMrp(url, use_selenium, web) ==
    LET full == IF StartsWithHttp(url) THEN url ELSE <<"https://">> \o url
        fetching == <<"[*] Fetching: ">> \o full \o <<Newline>>
        static_ok == ~use_selenium /\ web.static.kind = "str" /\ web.static.text # <<>>
        failed == ~use_selenium /\ web.static.kind = "RequestException"
        printed == IF use_selenium THEN <<>>
                   ELSE IF failed THEN fetching \o <<"[!] Request failed: ", Newline>>
                   ELSE IF static_ok THEN fetching
                   ELSE fetching \o <<"[!] Could not find MRP in static HTML. Page may be JS-rendered.",
                                      Newline>>
        selenium_ok == web.selenium.kind = "str" /\ web.selenium.text # <<>>
    IN  IF static_ok
        THEN [url |-> full, mrp |-> web.static, source |-> "requests + BeautifulSoup",
              printed |-> printed]
        ELSE IF selenium_ok
        THEN [url |-> full, mrp |-> web.selenium, source |-> "Selenium (headless Chrome)",
              printed |-> printed \o <<"[*] Trying Selenium (headless Chrome)...", Newline>>]
        ELSE [url |-> full, mrp |-> NoneValue, source |-> "None",
              printed |-> printed \o <<"[!] Selenium", Newline>>]

\* main: the report it prints after get_mrp, and its exit status
Report(r) ==
    <<Newline, "==================================================", Newline,
      "  Medicine : ", Newline>>
    \o (IF r.mrp.kind = "str" /\ r.mrp.text # <<>>
        THEN <<"  MRP      : ", Rupee>> \o r.mrp.text
             \o <<Newline, "  Currency : INR", Newline, "  Source   : ", r.source, Newline>>
        ELSE <<"  MRP      : Not found", Newline, "  Error    : ", Newline>>)
    \o <<"  URL      : ">> \o r.url
    \o <<Newline, "==================================================", Newline>>

\* fetch_cost_by_url.py run with the arguments argv: parse_args rejects an
\* option it does not know, and a missing or second url, with status 2 and the
\* usage on standard error; -h prints the help and exits 0
FetcherMain(argv, web) ==
    LET options == {k \in 1..Len(argv) : IsOption(argv[k])}
        positionals == {k \in 1..Len(argv) : ~IsOption(argv[k])}
    IN  IF \E k \in options : argv[k] \in {OptHelp, <<"-", "-", "help">>}
        THEN Exit(0, <<"usage: fetch_cost_by_url.py [-h] [--selenium] url", Newline>>, <<>>)
        ELSE IF (\E k \in options : argv[k] \notin KnownOptions) \/ Cardinality(positionals) # 1
        THEN Exit(2, <<>>, UsageError)
        ELSE LET url == argv[CHOOSE k \in positionals : TRUE]
                 r == GetMrp(url, \E k \in options : argv[k] = OptSelenium, web)
             IN  Exit(IF r.mrp.kind = "str" /\ r.mrp.text # <<>> THEN 0 ELSE 1,
                      r.printed \o Report(r), <<>>)

----------------------------------------------------------------------------
(* Price updater: update_medicine_prices.py                                *)
(* A row of the sheet is [num, url, price]: num tells whether the '#' cell   *)
(* holds a value, url and price are the values of the cells.  The name cell  *)
(* is only logged.                                                           *)

NoneCell == [kind |-> "None", text |-> <<>>, mant |-> 0, exp |-> 0]
StrCell(t) == [kind |-> "str", text |-> t, mant |-> 0, exp |-> 0]
FloatCell(f) == [kind |-> "float", text |-> <<>>, mant |-> f.mant, exp |-> f.exp]

\* truth value of a cell value: None, '' and 0 are false
CellTruthy(c) == (c.kind = "str" /\ c.text # <<>>) \/ (c.kind = "float" /\ c.mant # 0)

Whitespace == {Space, Tab, Newline}

\* url = str(url_cell.value).strip() if url_cell.value else ""
\* (a url cell holds a string or nothing)
UrlOf(r) == IF CellTruthy(r.url) THEN StripSet(r.url.text, Whitespace) ELSE <<>>

\* if not url: ... continue
HasUrl(r) == UrlOf(r) # <<>>

\* no row counts as priced
PricedNever(r) == FALSE

\* price_cell.value not in (None, "")
Priced(r) == ~(r.price.kind = "None" \/ (r.price.kind = "str" /\ r.price.text = <<>>))

\* the rows the loop visits: those before the first row whose '#' cell is
\* empty, or all of them (ws.max_row)
DataRows(s) ==
    LET empties == {k \in 1..Len(s) : ~s[k].num}
    IN  IF empties = {} THEN Len(s) ELSE SetMin(empties) - 1

\* U+00B2 SUPERSCRIPT TWO: a character for which str.isdigit() is true and
\* which float() does not take
SuperscriptTwo == "SUP2"

\* str.isdigit()
IsDigitStr(s) == s # <<>> /\ \A i \in 1..Len(s) : IsDigit(s[i]) \/ s[i] = SuperscriptTwo

\* s.replace(".", "", 1)
DropFirstPeriod(s) ==
    LET dots == {i \in 1..Len(s) : s[i] = Period}
    IN  IF dots = {} THEN s
        ELSE SubSeq(s, 1, SetMin(dots) - 1) \o SubSeq(s, SetMin(dots) + 1, Len(s))

\* mrp_raw and mrp_raw.replace(".", "", 1).isdigit()
IsNumeric(mrp_raw) == mrp_raw # <<>> /\ IsDigitStr(DropFirstPeriod(mrp_raw))

\* float(mrp_raw) for a text of digits and periods after an optional minus
\* sign; None stands for ValueError
ToFloat(mrp_raw) ==
    LET negative == mrp_raw # <<>> /\ mrp_raw[1] = "-"
        digits == IF negative THEN Tail(mrp_raw) ELSE mrp_raw
        f == ParseFloat(digits)
    IN  IF \E i \in 1..Len(digits) : ~(IsDigit(digits[i]) \/ digits[i] = Period) THEN NoFloat
        ELSE IF negative /\ f # NoFloat THEN FloatValue(0 - f.mant, f.exp)
        ELSE f

\* mrp_raw = result.stdout.strip()
MrpRaw(run) == StripSet(run.stdout, Whitespace)

\* error_msg = mrp_raw or result.stderr.strip() or "No output"
ErrorMsg(run) ==
    IF MrpRaw(run) # <<>> THEN MrpRaw(run)
    ELSE IF StripSet(run.stderr, Whitespace) # <<>> THEN StripSet(run.stderr, Whitespace)
    ELSE <<"No output">>

\* one of the counters is incremented
Tally(c, f) == [c EXCEPT ![f] = @ + 1]

\* nothing is appended
FailureDropped(fr, k, msg) == fr

\* failed_rows.append((row_num, name, url, error))
RecordFailure(fr, k, msg) == Append(fr, [row |-> k, error |-> msg])

\* only a timeout of the child is caught
CaughtTimeoutOnly(exc) == exc = "TimeoutExpired"

\* except subprocess.TimeoutExpired / except Exception: every exception a
\* fetch or a save raises is caught (KeyboardInterrupt and SystemExit are not
\* Exceptions; they are the interruption of the batch)
Caught(exc) == exc \in {"TimeoutExpired", "OSError", "ValueError", "PermissionError"}

\* nothing is written
SaveSkipped(f, wb) == f

\* wb.save(xlsx_path): the file holds the workbook as it is in memory
Save(f, wb) == wb

ZeroCounters ==
    [total_rows |-> 0, fetched_ok |-> 0, fetched_fail |-> 0,
     skipped_no_url |-> 0, skipped_filled |-> 0]

NoChild ==
    [kind |-> "none", program |-> "none", found |-> <<>>,
     returncode |-> 0, stdout |-> <<>>, stderr |-> <<>>]

----------------------------------------------------------------------------
(* Inputs of the price updater                                             *)

MaxRows == 2          \* most rows of an enumerated price sheet
MaxPasses == 2        \* most runs of main over one file

UrlDolo == <<"https://", "www.1mg.com/drugs/dolo-650-tablet-81458">>

Price30_5 == FloatCell(FloatValue(305, 1))

SheetRow(n, u, p) == [num |-> n, url |-> u, price |-> p]

RowKinds ==
    {SheetRow(TRUE, StrCell(UrlDolo), NoneCell),
     SheetRow(TRUE, StrCell(<<Space>> \o UrlDolo), StrCell(<<>>)),
     SheetRow(TRUE, StrCell(UrlDolo), Price30_5),
     SheetRow(TRUE, StrCell(UrlDolo), FloatCell(FloatValue(0, 0))),
     SheetRow(TRUE, NoneCell, NoneCell),
     SheetRow(TRUE, StrCell(<<Space>>), Price30_5),
     SheetRow(FALSE, NoneCell, NoneCell)}

Sheets == UNION {[1..n -> RowKinds] : n \in 1..MaxRows}

\* what the web gives get_mrp for the url
Web(s, b) == [static |-> s, selenium |-> b]

Webs ==
    {Web(StrValue(Chars149_02), NoneValue),
     Web([kind |-> "RequestException", text |-> <<>>], NoneValue)}

\* the child process [sys.executable, FETCHER_SCRIPT, url, "-mrp"] when the
\* script is fetch_cost_by_url.py of this repository; found is the MRP that
\* get_mrp finds for the url
FetcherRun(url, web) ==
    LET r == FetcherMain(<<url, OptMrp>>, web)
    IN  [kind |-> "exited", program |-> "fetch_cost_by_url.py",
         found |-> GetMrp(url, FALSE, web).mrp.text,
         returncode |-> r.returncode, stdout |-> r.stdout, stderr |-> r.stderr]

\* a child process that prints the text t and exits
PrintingRun(t, code) ==
    [kind |-> "exited", program |-> "prints", found |-> <<>>,
     returncode |-> code, stdout |-> t, stderr |-> <<>>]

\* the updater reads the standard output of whatever lies at FETCHER_SCRIPT:
\* the runs of fetch_cost_by_url.py, and runs that print a price or another text
ChildRuns(url) ==
    {FetcherRun(url, web) : web \in Webs}
    \cup {PrintingRun(Chars149_02 \o <<Newline>>, 0),
          PrintingRun(<<SuperscriptTwo>>, 0),
          PrintingRun(<<"-", "5">>, 0),
          PrintingRun(CharsNA, 1)}

----------------------------------------------------------------------------
(* main of update_medicine_prices.py, one step per row and per child process *)

otherThanUpdate == <<canonVars, resolverVars, extractVars, crawlVars, finderVars>>

InitUpdate ==
    /\ sheet \in Sheets
    /\ loaded = sheet
    /\ file = sheet
    /\ row = 1
    /\ child = NoChild
    /\ status = [k \in 1..Len(sheet) |-> ""]
    /\ fetches = [k \in 1..Len(sheet) |-> 0]
    /\ counters = ZeroCounters
    /\ failed_rows = <<>>
    /\ passes = 1
    /\ exit_status = -1
    /\ rested = -1
    /\ upc = "loop"
    /\ CanonIdle
    /\ ResolverIdle
    /\ ExtractIdle
    /\ CrawlIdle
    /\ FinderIdle

\* the loop is at a row whose '#' cell holds a value
AtRow == upc = "loop" /\ row <= DataRows(sheet)

\* the row is logged with status st and the loop goes to the next row
Logged(st) ==
    /\ status' = [status EXCEPT ![row] = st]
    /\ row' = row + 1
    /\ upc' = "loop"

\* if not url: skipped_no_url += 1; continue
SkipNoUrl ==
    /\ AtRow
    /\ ~HasUrl(sheet[row])
    /\ counters' = Tally(Tally(counters, "total_rows"), "skipped_no_url")
    /\ Logged("SKIP_NO_URL")
    /\ UNCHANGED <<sheet, loaded, file, child, fetches, failed_rows, passes, exit_status,
                   rested, otherThanUpdate>>

\* if price_cell.value not in (None, ""): skipped_filled += 1; continue
SkipFilled ==
    /\ AtRow
    /\ HasUrl(sheet[row])
    /\ Priced(sheet[row])
    /\ counters' = Tally(Tally(counters, "total_rows"), "skipped_filled")
    /\ Logged("ALREADY_FILLED")
    /\ UNCHANGED <<sheet, loaded, file, child, fetches, failed_rows, passes, exit_status,
                   rested, otherThanUpdate>>

\* subprocess.run([sys.executable, FETCHER_SCRIPT, url, "-mrp"], timeout=30)
\* starts the child process
StartFetch ==
    /\ AtRow
    /\ HasUrl(sheet[row])
    /\ ~Priced(sheet[row])
    /\ counters' = Tally(counters, "total_rows")
    /\ child' = [NoChild EXCEPT !.kind = "running"]
    /\ fetches' = [fetches EXCEPT ![row] = @ + 1]
    /\ upc' = "fetching"
    /\ UNCHANGED <<sheet, loaded, file, row, status, failed_rows, passes, exit_status,
                   rested, otherThanUpdate>>

\* REQUEST_DELAY = 1.5, in tenths of a second
REQUEST_DELAY == 15

\* no wait
SleepSkipped(t, d) == t

\* time.sleep(d) returns when d has passed: t is the time already waited
Sleep(t, d) == t + d

\* the child process has ended; time.sleep(REQUEST_DELAY) at the end of the
\* loop body
PoliteDelay == rested' = Sleep(0, REQUEST_DELAY)

\* fetched_fail += 1; failed_rows.append(...); log; the delay; the next row
Failure(st, msg) ==
    /\ counters' = Tally(counters, "fetched_fail")
    /\ failed_rows' = RecordFailure(failed_rows, row, msg)
    /\ PoliteDelay
    /\ Logged(st)

\* the exception exc is raised inside the try block: a handler takes it, or
\* it leaves main
Raise(exc) ==
    IF Caught(exc)
    THEN Failure(IF exc = "TimeoutExpired" THEN "FETCH_TIMEOUT" ELSE "FETCH_ERROR",
                 IF exc = "TimeoutExpired" THEN <<"Timeout after 30s">> ELSE <<exc>>)
    ELSE /\ upc' = "aborted"
         /\ rested' = 0
         /\ UNCHANGED <<counters, failed_rows, status, row>>

\* the child printed a number
PrintedNumber(c) == c \in ChildRuns(UrlOf(sheet[row])) /\ IsNumeric(MrpRaw(c))

\* the price is written to the cell, the workbook is saved, fetched_ok += 1,
\* the delay
FetchedOk ==
    /\ upc = "fetching"
    /\ \E c \in {x \in ChildRuns(UrlOf(sheet[row])) : PrintedNumber(x)} :
           /\ ToFloat(MrpRaw(c)) # NoFloat
           /\ child' = c
           /\ sheet' = [sheet EXCEPT ![row].price = FloatCell(ToFloat(MrpRaw(c)))]
    /\ file' = Save(file, sheet')
    /\ counters' = Tally(counters, "fetched_ok")
    /\ PoliteDelay
    /\ Logged("FETCHED_OK")
    /\ UNCHANGED <<loaded, fetches, failed_rows, passes, exit_status, otherThanUpdate>>

\* the price is written to the cell and wb.save raises (the file is open in
\* another program, the disk is full): except Exception
SaveFails ==
    /\ upc = "fetching"
    /\ \E c \in {x \in ChildRuns(UrlOf(sheet[row])) : PrintedNumber(x)} :
           /\ ToFloat(MrpRaw(c)) # NoFloat
           /\ child' = c
           /\ sheet' = [sheet EXCEPT ![row].price = FloatCell(ToFloat(MrpRaw(c)))]
    /\ Raise("PermissionError")
    /\ UNCHANGED <<loaded, file, fetches, passes, exit_status, otherThanUpdate>>

\* the child printed nothing, or something that is not a number
FetchFailed ==
    /\ upc = "fetching"
    /\ \E c \in {x \in ChildRuns(UrlOf(sheet[row])) : ~PrintedNumber(x)} :
           /\ child' = c
           /\ Failure("FETCH_FAILED", ErrorMsg(c))
    /\ UNCHANGED <<sheet, loaded, file, fetches, passes, exit_status, otherThanUpdate>>

\* float(mrp_raw) raises ValueError: except Exception
FetchValueError ==
    /\ upc = "fetching"
    /\ \E c \in {x \in ChildRuns(UrlOf(sheet[row])) : PrintedNumber(x)} :
           /\ ToFloat(MrpRaw(c)) = NoFloat
           /\ child' = c
    /\ Raise("ValueError")
    /\ UNCHANGED <<sheet, loaded, file, fetches, passes, exit_status, otherThanUpdate>>

\* the child runs for 30 s: except subprocess.TimeoutExpired
FetchTimeout ==
    /\ upc = "fetching"
    /\ child' = [NoChild EXCEPT !.kind = "timeout"]
    /\ Raise("TimeoutExpired")
    /\ UNCHANGED <<sheet, loaded, file, fetches, passes, exit_status, otherThanUpdate>>

\* subprocess.run cannot start the child: except Exception
FetchOsError ==
    /\ upc = "fetching"
    /\ child' = [NoChild EXCEPT !.kind = "raised"]
    /\ Raise("OSError")
    /\ UNCHANGED <<sheet, loaded, file, fetches, passes, exit_status, otherThanUpdate>>

\* the '#' cell is empty, or the rows are used up: the summary is printed and
\* main returns 0 if fetched_fail == 0 else 1
EndOfData ==
    /\ upc = "loop"
    /\ row > DataRows(sheet)
    /\ upc' = "summary"
    /\ exit_status' = IF counters.fetched_fail = 0 THEN 0 ELSE 1
    /\ UNCHANGED <<sheet, loaded, file, row, child, status, fetches, counters,
                   failed_rows, passes, rested, otherThanUpdate>>

NextUpdate ==
    \/ SkipNoUrl
    \/ SkipFilled
    \/ StartFetch
    \/ FetchedOk
    \/ SaveFails
    \/ FetchFailed
    \/ FetchValueError
    \/ FetchTimeout
    \/ FetchOsError
    \/ EndOfData

SpecUpdate == InitUpdate /\ [][NextUpdate]_vars

\* the statements of the loop that wait for nothing but a sleep
LoopStep == SkipNoUrl \/ SkipFilled \/ StartFetch \/ EndOfData

\* the loop goes on whenever it can (time.sleep(REQUEST_DELAY) ends), and
\* subprocess.run(..., timeout=30) does not wait for ever: a child that has
\* not ended is stopped after 30 s
SpecUpdateFair == SpecUpdate /\ WF_vars(LoopStep) /\ WF_vars(FetchTimeout)

\* the batch is interrupted (KeyboardInterrupt, the process is killed) between
\* two statements of main: what is in memory is lost, the file stays.
\* wb.save(xlsx_path) is one statement of main: it has written the workbook or
\* it has raised (how openpyxl writes the file is not part of this repository)
Interrupt ==
    /\ upc \in {"loop", "fetching"}
    /\ upc' = "interrupted"
    /\ UNCHANGED <<sheet, loaded, file, row, child, status, fetches, counters,
                   failed_rows, passes, exit_status, rested, otherThanUpdate>>

\* main is started again over the same file: wb = openpyxl.load_workbook(xlsx_path)
Rerun ==
    /\ upc \in {"interrupted", "summary"}
    /\ passes < MaxPasses
    /\ passes' = passes + 1
    /\ sheet' = file
    /\ loaded' = file
    /\ row' = 1
    /\ child' = NoChild
    /\ status' = [k \in 1..Len(file) |-> ""]
    /\ fetches' = [k \in 1..Len(file) |-> 0]
    /\ counters' = ZeroCounters
    /\ failed_rows' = <<>>
    /\ exit_status' = -1
    /\ rested' = -1
    /\ upc' = "loop"
    /\ UNCHANGED <<file, otherThanUpdate>>

NextUpdateCrash == NextUpdate \/ Interrupt \/ Rerun

SpecUpdateCrash == InitUpdate /\ [][NextUpdateCrash]_vars

----------------------------------------------------------------------------
(* Claims about the price updater                                          *)

Rows == 1..Len(status)

SkipStatuses == {"SKIP_NO_URL", "ALREADY_FILLED"}
FailStatuses == {"FETCH_FAILED", "FETCH_TIMEOUT", "FETCH_ERROR"}

\* the row needs no fetch as the workbook was loaded: no URL, or a price
Skippable(r) == ~HasUrl(r) \/ r.price.kind = "float" \/ (r.price.kind = "str" /\ r.price.text # <<>>)

\* the loop has just skipped the row it was at
SkipStep ==
    /\ upc = "loop"
    /\ upc' = "loop"
    /\ row' = row + 1
    /\ status'[row] \in SkipStatuses

C13_SkippedUntouched ==
    \A k \in Rows :
        /\ Skippable(loaded[k]) =>
               /\ fetches[k] = 0
               /\ sheet[k].price = loaded[k].price
               /\ file[k].price = loaded[k].price
               /\ status[k] \in SkipStatuses \cup {""}
        /\ fetches[k] > 0 => HasUrl(loaded[k]) /\ ~Skippable(loaded[k])

\* C13: a row with no URL or with a price is skipped: no child process is
\* started for it, and neither its price cell nor the file is changed; in a run
\* over a file in which some rows have prices, child processes are started only
\* for rows that have a URL and no price.
C13_SkipWithoutFetch ==
    /\ []C13_SkippedUntouched
    /\ [][SkipStep => file' = file /\ sheet' = sheet /\ fetches' = fetches /\ child' = child]_vars

\* a second run over the file: the row priced by the first run is skipped,
\* another row is fetched
C13_Witness ==
    /\ passes = 2
    /\ \E k \in Rows : status[k] = "ALREADY_FILLED" /\ loaded[k].price = FloatCell(FloatValue(14902, 2))
    /\ \E k \in Rows : fetches[k] = 1

\* C14: whatever a row's fetch comes to (a child that fails or prints no
\* number, a timeout, an exception, a save that fails), the batch goes on:
\* every row before the first empty '#' cell gets its status and the summary
\* is reached.
C14_BatchCompletes ==
    <>(upc = "summary" /\ \A k \in 1..DataRows(sheet) : status[k] # "")

\* the summary is reached after a row whose save failed and a row after it
C14_Witness ==
    /\ upc = "summary"
    /\ \E i \in 1..Len(failed_rows) :
           /\ failed_rows[i].error = <<"PermissionError">>
           /\ failed_rows[i].row < DataRows(sheet)

NumberWith(S) == Cardinality({k \in Rows : status[k] \in S})

Outcomes ==
    counters.fetched_ok + counters.fetched_fail + counters.skipped_no_url
    + counters.skipped_filled

\* C15: the rows are visited once each in the order of the sheet, each ends
\* with one status, a row with neither URL nor missing price counts as
\* skipped-no-URL only, the counters count the statuses, and at the end
\* total_rows == fetched_ok + fetched_fail + skipped_no_url + skipped_filled
\* and len(failed_rows) == fetched_fail.
C15_OneOutcomePerRow ==
    /\ \A k \in Rows : (status[k] # "") <=> (k < row)
    /\ \A k \in Rows : fetches[k] <= 1
    /\ \A k \in Rows : k < row /\ ~HasUrl(loaded[k]) => status[k] = "SKIP_NO_URL"
    /\ counters.skipped_no_url = NumberWith({"SKIP_NO_URL"})
    /\ counters.skipped_filled = NumberWith({"ALREADY_FILLED"})
    /\ counters.fetched_ok = NumberWith({"FETCHED_OK"})
    /\ counters.fetched_fail = NumberWith(FailStatuses)
    /\ Len(failed_rows) = counters.fetched_fail
    /\ \A i \in 1..Len(failed_rows) : status[failed_rows[i].row] \in FailStatuses
    /\ \A i, j \in 1..Len(failed_rows) : i < j => failed_rows[i].row < failed_rows[j].row
    /\ counters.total_rows = Outcomes + (IF upc = "fetching" THEN 1 ELSE 0)
    /\ upc = "summary" => counters.total_rows = Outcomes /\ counters.total_rows = DataRows(sheet)

\* a batch of two rows at its end: a priced row without URL, and a failed row
C15_Witness ==
    /\ upc = "summary"
    /\ counters.total_rows = 2
    /\ counters.fetched_fail = 1
    /\ \E k \in Rows : status[k] = "SKIP_NO_URL" /\ Priced(loaded[k])

\* the rows with a URL and no price in the file
Unpriced == {k \in 1..DataRows(file) : HasUrl(file[k]) /\ ~Skippable(file[k])}

C16_Flushed ==
    /\ \A k \in Rows :
           status[k] = "FETCHED_OK" => file[k].price.kind = "float" /\ file[k].price = sheet[k].price
    /\ upc = "fetching" /\ counters.fetched_ok + counters.fetched_fail = 0 =>
           Unpriced # {} /\ row = SetMin(Unpriced)

IsDecimalText(s) ==
    /\ \A i \in 1..Len(s) : IsDigit(s[i]) \/ s[i] = Period
    /\ Cardinality({i \in 1..Len(s) : s[i] = Period}) <= 1
    /\ \E i \in 1..Len(s) : IsDigit(s[i])

NonNegativeNumber(c) == c.kind = "float" /\ c.mant >= 0

\* C17: a price cell is written only when the child printed a non-negative
\* decimal; every price cell holds the value it was loaded with or a
\* non-negative number; and the price cell of a row whose fetch failed, timed
\* out or gave no number (a row counted in fetched_fail) is as it was loaded.
C17_OnlyValidPrices ==
    /\ \A k \in Rows :
           /\ sheet[k].price = loaded[k].price \/ NonNegativeNumber(sheet[k].price)
           /\ file[k].price = loaded[k].price \/ NonNegativeNumber(file[k].price)
           /\ status[k] \in FailStatuses => sheet[k].price = loaded[k].price
    /\ upc = "loop" /\ row > 1 /\ sheet[row - 1].price # loaded[row - 1].price =>
           IsDecimalText(MrpRaw(child))

\* C18: when the child process of a row was fetch_cost_by_url.py and it found
\* an MRP for the row's URL, the row is counted as fetched and its price cell
\* holds that MRP.
C18_FetcherPriceWritten ==
    /\ upc = "loop"
    /\ row > 1
    /\ fetches[row - 1] = 1
    /\ child.kind = "exited"
    /\ child.program = "fetch_cost_by_url.py"
    /\ child.found # <<>>
    => /\ status[row - 1] = "FETCHED_OK"
       /\ sheet[row - 1].price = FloatCell(ToFloat(child.found))

----------------------------------------------------------------------------
(* Claims about the numeric token of the text strategies                   *)

\* which strategy produced the returned value: 1..5, 0 when none did
Producer(d) ==
    LET produced == {k \in 1..5 : C8_Outcomes(d)[k].kind = "value"}
    IN  IF produced = {} THEN 0 ELSE SetMin(produced)

\* the text in which the marked-element strategy found its token
RECURSIVE SelectorTextFrom(_, _)
SelectorTextFrom(soup, k) ==
    IF k > NumSelectors THEN <<>>
    ELSE IF FindTag(soup, k) # 0
            /\ MarkedSearch(GetTextStripped(soup.body[FindTag(soup, k)])).found
    THEN GetTextStripped(soup.body[FindTag(soup, k)])
    ELSE SelectorTextFrom(soup, k + 1)

\* the text the producing text strategy searched
TokenSource(d) ==
    IF Producer(d) = 3 THEN SelectorTextFrom(d, 1) ELSE GetText(d)

\* where the group of the leftmost match starts in s
GroupStart(s, starts) ==
    starts[SetMin({p \in 1..Len(s) : starts[p] # 0 /\ TokenEnd(s, starts[p]) # 0})]

TokenStart(d) ==
    LET s == TokenSource(d)
    IN  CASE Producer(d) = 3 -> GroupStart(s, [p \in 1..Len(s) |-> MarkedPrefix(s, p)])
          [] Producer(d) = 4 -> GroupStart(s, [p \in 1..Len(s) |-> KeywordPrefix(s, p)])
          [] Producer(d) = 5 -> GroupStart(s, [p \in 1..Len(s) |-> CurrencyPrefix(s, p)])

RECURSIVE DigitRun(_, _)
DigitRun(s, i) == IF DigitAt(s, i) THEN 1 + DigitRun(s, i + 1) ELSE 0

\* where the number that starts at q ends in s: its digits and commas, and
\* all the digits of its decimal part
NumberEnd(s, q) ==
    LET e == q + DigitCommaRun(s, q + 1)
    IN  IF e + 1 <= Len(s) /\ s[e + 1] = Period /\ DigitAt(s, e + 2)
        THEN e + 1 + DigitRun(s, e + 2)
        ELSE e

FromTextStrategy == epc = "returned" /\ Producer(doc) \in 3..5

\* the token is not followed by a digit or a percent sign
C23_LookaheadHolds ==
    FromTextStrategy =>
        LookaheadOk(TokenSource(doc), TokenEnd(TokenSource(doc), TokenStart(doc)) + 1)

\* C23: the token a text strategy returns is not followed by a digit or a
\* percent sign, is the whole number written in the text (never "149" out of
\* "149.029"), and that number is not a percentage (nothing out of "12.5%").
C23_WholeNumber ==
    FromTextStrategy =>
        LET s == TokenSource(doc)
            q == TokenStart(doc)
            e == TokenEnd(s, q)
        IN  /\ LookaheadOk(s, e + 1)
            /\ e = NumberEnd(s, q)
            /\ ~(NumberEnd(s, q) + 1 <= Len(s) /\ s[NumberEnd(s, q) + 1] = Percent)

----------------------------------------------------------------------------
(* Claims about the embedded-payload strategy                              *)

MrpNames == {"mrp", "MRP"}

\* the depth-first walk of the claim: the entries of a dict in order, the
\* items of a list in order; the value of the first field named mrp or MRP
\* that is usable (neither null nor zero nor empty), JNull when there is none
RECURSIVE FirstMrp(_), FirstMrpItems(_, _), FirstMrpElems(_, _)
FirstMrp(v) ==
    CASE IsDict(v) -> FirstMrpItems(v.items, 1)
      [] IsList(v) -> FirstMrpElems(v.elems, 1)
      [] OTHER -> JNull
FirstMrpItems(es, i) ==
    IF i > Len(es) THEN JNull
    ELSE IF es[i].k \in MrpNames /\ Truthy(es[i].v) THEN es[i].v
    ELSE IF Truthy(FirstMrp(es[i].v)) THEN FirstMrp(es[i].v)
    ELSE FirstMrpItems(es, i + 1)
FirstMrpElems(xs, i) ==
    IF i > Len(xs) THEN JNull
    ELSE IF Truthy(FirstMrp(xs[i])) THEN FirstMrp(xs[i])
    ELSE FirstMrpElems(xs, i + 1)

HasPageProps(d) == \E t \in PagePropsTrees : d.next_data = WithPageProps(t)

PagePropsOf(d) == CHOOSE t \in PagePropsTrees : d.next_data = WithPageProps(t)

\* C24: the embedded-payload strategy returns the value of the first mrp
\* field (of either case) of the depth-first walk of pageProps; a later or
\* deeper field or one of the other case does not win over it, and a null or
\* zero field before it does not hide it.
C24_FirstMrpField ==
    (epc # "next_data" /\ HasPageProps(doc) /\ Truthy(FirstMrp(PagePropsOf(doc)))) =>
        result = Returned(PyStr(FirstMrp(PagePropsOf(doc))))

----------------------------------------------------------------------------
(* Claims about the linked-structured-data strategy                        *)

\* the price of an offer that is an object, JNull for anything else
OfferWanted(offer) == IF IsDict(offer) THEN OfferPrice(offer) ELSE JNull

\* the price of a product object: offers an object, or a non-empty list whose
\* first element is used; JNull for a malformed object
ItemWanted(item) ==
    IF ~IsDict(item) THEN JNull
    ELSE LET offers == DictGet(item, "offers", JDict(<<>>))
         IN  CASE IsDict(offers) -> OfferWanted(offers)
               [] IsList(offers) /\ Truthy(offers) -> OfferWanted(offers.elems[1])
               [] OTHER -> JNull

\* the objects of the script blocks, in document order; a block that json.loads
\* cannot read has none
RECURSIVE AllItems(_, _)
AllItems(scripts, i) ==
    IF i > Len(scripts) THEN <<>>
    ELSE (IF scripts[i].tag # "json" THEN <<>>
          ELSE IF IsList(scripts[i].data) THEN scripts[i].data.elems
          ELSE <<scripts[i].data>>)
         \o AllItems(scripts, i + 1)

\* the price of the first object that has one, every object being examined
RECURSIVE FirstWanted(_, _)
FirstWanted(items, j) ==
    IF j > Len(items) THEN JNull
    ELSE IF Truthy(ItemWanted(items[j])) THEN ItemWanted(items[j])
    ELSE FirstWanted(items, j + 1)

LdExamined == epc \notin {"next_data", "ld_json"} /\ NextDataStrategy(doc).kind = "nothing"

\* a usable highPrice is returned before the plain price
C25_HighPriceFirst ==
    (LdExamined /\ Len(doc.ld_json) = 1 /\ doc.ld_json[1].tag = "json"
        /\ IsDict(doc.ld_json[1].data)
        /\ IsDict(DictGet(doc.ld_json[1].data, "offers", JNull))
        /\ Truthy(DictGet(DictGet(doc.ld_json[1].data, "offers", JNull), "highPrice", JNull))) =>
        result = Returned(PyStr(DictGet(DictGet(doc.ld_json[1].data, "offers", JNull),
                                        "highPrice", JNull)))

\* C25: the linked-structured-data strategy returns highPrice, or price when
\* there is no highPrice, of the first product object that has one; a
\* malformed object does not keep the later objects of its script block or
\* the later script blocks from being examined.
C25_OffersExamined ==
    (LdExamined /\ Truthy(FirstWanted(AllItems(doc.ld_json, 1), 1))) =>
        result = Returned(PyStr(FirstWanted(AllItems(doc.ld_json, 1), 1)))

----------------------------------------------------------------------------
(* Claims about the delay of the price updater                             *)

\* a child process is started
FetchStarts == upc = "loop" /\ upc' = "fetching"

\* C26: when a child process is started after another one ended, at least
\* REQUEST_DELAY has been slept since that one ended, whatever it came to
\* (a price, a failure, a timeout, an exception); a skipped row starts no
\* child process and no wait.
C26_DelayBetweenFetches ==
    [][/\ FetchStarts => (rested = -1 \/ rested >= REQUEST_DELAY)
       /\ SkipStep => (fetches' = fetches /\ rested' = rested)]_vars

\* the child of row 1 timed out, and the child of row 2 is started after the
\* delay
C26_Witness ==
    /\ upc = "fetching"
    /\ row = 2
    /\ status[1] = "FETCH_TIMEOUT"
    /\ rested = REQUEST_DELAY

----------------------------------------------------------------------------
(* The corpus resolution pass: the mapping loop of 03_normalize_advanced.py *)
(* and the all_meds loop of 04_final_analysis.py.  The reference set is the *)
(* set of the canonical names of the corpus; the loop goes over the same    *)
(* names.                                                                   *)

a5 == <<"a", "5">>

\* the canonical names of an enumerated corpus
CorpusNames == NamesNear(a5) \cup {<<"a">>, <<"5">>, <<>>}

CorpusSets == {R \in SUBSET CorpusNames : Cardinality(R) <= MaxRef}

InitCorpus ==
    /\ pipeline \in {"03", "04"}
    /\ reference \in CorpusSets
    /\ todo = reference
    /\ final_meds = {}
    /\ refinal = {}
    /\ mpc = "mapping"
    /\ cname = <<>>
    /\ resolved = <<>>
    /\ reresolved = <<>>
    /\ rpc = "off"
    /\ CanonIdle
    /\ ExtractIdle
    /\ CrawlIdle
    /\ UpdateIdle
    /\ FinderIdle

otherThanCorpus ==
    <<cname, resolved, reresolved, rpc, canonVars, extractVars, crawlVars, updateVars,
      finderVars>>

\* 03: mapping[med] = med + matched if matched else med
\* 04: n = full_normalize(med); if n: all_meds.add(n)
MapOne ==
    /\ mpc = "mapping"
    /\ \E n \in todo :
           /\ todo' = todo \ {n}
           /\ final_meds' = IF pipeline = "04" /\ resolve(n, reference) = <<>>
                            THEN final_meds
                            ELSE final_meds \cup {resolve(n, reference)}
    /\ UNCHANGED <<pipeline, reference, refinal, mpc, otherThanCorpus>>

\* 03: final_meds = sorted(set(mapping.values()))
\* 04: unique_meds = sorted(all_meds)
EndPass ==
    /\ mpc = "mapping"
    /\ todo = {}
    /\ mpc' = "final"
    /\ UNCHANGED <<pipeline, reference, todo, final_meds, refinal, otherThanCorpus>>

\* every member of the final set is resolved against the same reference set
ResolveAgain ==
    /\ mpc = "final"
    /\ refinal' = {resolve(x, reference) : x \in final_meds}
    /\ mpc' = "rechecked"
    /\ UNCHANGED <<pipeline, reference, todo, final_meds, otherThanCorpus>>

NextCorpus == MapOne \/ EndPass \/ ResolveAgain

SpecCorpus == InitCorpus /\ [][NextCorpus]_vars

(* Claims about the corpus pass                                            *)

\* C27: after the pass the final set holds only members of the reference set,
\* holds no name ending in a digit that has a unit variant (mg, ml, mcg, gm,
\* iu) in the reference set, and resolving its members again changes nothing.
C27_FinalSetClosed ==
    mpc \in {"final", "rechecked"} =>
        /\ final_meds \subseteq reference
        /\ \A n \in final_meds : \A k \in 1..Len(C5_Order) :
               ~(C5_EndsInDigit(n) /\ n \o C5_Order[k] \in reference)
        /\ mpc = "rechecked" => refinal = final_meds

\* "a5" was resolved to "a5mg" and is not in the final set, "5" stayed
C27_Witness ==
    /\ mpc = "rechecked"
    /\ reference = {a5, a5 \o <<"m", "g">>, <<"5">>}
    /\ final_meds = {a5 \o <<"m", "g">>, <<"5">>}
    /\ refinal = final_meds

----------------------------------------------------------------------------
(* Claims about what the search crawlers leave in the output file          *)

\* the rows whose result columns crawl_medicines has filled
Searched == {k \in 1..Len(df) : df[k].match_type # ""}

\* C22: when the crawler is interrupted by the user, every row searched
\* before the interruption is in the output file with its result.
C22_ProgressSaved ==
    kpc = "interrupted" =>
        \A k \in Searched : k <= Len(saved) /\ saved[k] = df[k]

\* the stored type agrees with the stored score under 0.90 and 0.60
SelfConsistent(r) ==
    r.match_score.kind = "float" =>
        /\ r.match_score.hundredths >= 90 => r.match_type = "exact"
        /\ r.match_score.hundredths >= 60 => r.match_type \in {"exact", "close"}

\* C28: every record of the output file is self-consistent: a stored score
\* >= 0.90 has type exact and a stored score >= 0.60 has type exact or close.
C28_StoredTypeAgrees ==
    \A k \in 1..Len(saved) : SelfConsistent(saved[k])

----------------------------------------------------------------------------
(* Inputs of the URL finder, populate_urls.py                              *)

MaxFinderRows == 2    \* most data rows of an enumerated workbook

\* a URL is one symbol
OldUrl == "https://www.1mg.com/drugs/dolo-650-tablet-74467"
NewUrl == "https://www.1mg.com/drugs/dolo-650-tablet-81458"

FinderNames == {<<"D">>, <<"d", " ">>, <<>>}

BookRow(n, u) == [name |-> n, url |-> u]

\* the medicine_name and medicine_url cells of the data rows of the sheet
Books ==
    UNION {[1..n -> {BookRow(m, u) : m \in FinderNames,
                                     u \in {NoneValue, StrValue(<<OldUrl>>)}}] :
              n \in 1..MaxFinderRows}

\* what the search page gives: a product URL, none, or an exception
SearchOutcomes ==
    {[status |-> "found", url |-> StrValue(<<NewUrl>>)],
     [status |-> "not_found", url |-> NoneValue],
     [status |-> "error", url |-> NoneValue]}

----------------------------------------------------------------------------
(* search_medicine and write_output                                        *)

Result(q, st, u) == [query |-> q, found |-> st = "found", url |-> u, status |-> st]

\* search_medicine: an empty name, "nan" and "none" are skipped without a
\* request; otherwise the outcome of the page
search_medicine(medicine_name, outcome) ==
    LET name == Strip(medicine_name)
    IN  IF name = <<>> \/ Lower(name) \in {<<"n", "a", "n">>, <<"n", "o", "n", "e">>, <<>>}
        THEN Result(medicine_name, "skip", NoneValue)
        ELSE Result(medicine_name, outcome.status, outcome.url)

\* prefix of main: a skip result for each row before --start
prefix(all_medicines, n) ==
    [k \in 1..(n - 1) |-> Result(all_medicines[k], "skip", NoneValue)]

\* str(r["query"]).strip().lower()
ResultKey(q) == Lower(Strip(q))

\* result_map.get(name.lower(), {}): of the results with the key, the last
result_map_get(rs, key) ==
    LET at == {i \in 1..Len(rs) : ResultKey(rs[i].query) = key}
    IN  IF at = {} THEN [status |-> "skip", url |-> NoneValue]
        ELSE [status |-> rs[SetMax(at)].status, url |-> rs[SetMax(at)].url]

\* res.get("url") or ""
UrlOrEmpty(u) == IF u.kind = "None" THEN <<>> ELSE u.text

\* _style_data: cell.value = str(value) if value not in (None, "", nan) else ""
style_data_value(value) == StrValue(value)

\* write_output: the workbook is loaded from the input file and the URL cell
\* of every data row is set from the result found under the row's name
write_output(input, rs) ==
    [k \in 1..Len(input) |->
        BookRow(input[k].name,
                style_data_value(UrlOrEmpty(result_map_get(rs, Lower(Strip(input[k].name))).url)))]

----------------------------------------------------------------------------
(* main of populate_urls.py, one step per browser call and per search      *)

otherThanFinder == <<canonVars, resolverVars, extractVars, crawlVars, updateVars>>

InitFinder ==
    /\ book \in Books
    /\ start \in 1..Len(book)
    /\ sessions = [created |-> 0, open |-> 0]
    /\ fi = start
    /\ results = <<>>
    /\ written = <<>>
    /\ fpc = "launch"
    /\ CanonIdle
    /\ ResolverIdle
    /\ ExtractIdle
    /\ CrawlIdle
    /\ UpdateIdle

\* create_driver: webdriver.Chrome(service=service, options=opts) starts the
\* browser session
LaunchChrome ==
    /\ fpc = "launch"
    /\ sessions' = [created |-> sessions.created + 1, open |-> sessions.open + 1]
    /\ fpc' = "patch"
    /\ UNCHANGED <<book, start, fi, results, written, otherThanFinder>>

\* ChromeDriverManager().install() or webdriver.Chrome raises: no session,
\* main fails
LaunchFails ==
    /\ fpc = "launch"
    /\ fpc' = "create_failed"
    /\ UNCHANGED <<book, start, sessions, fi, results, written, otherThanFinder>>

\* create_driver: driver.execute_script(...) and return driver; main enters
\* the try block
PatchNavigator ==
    /\ fpc = "patch"
    /\ fpc' = "loop"
    /\ UNCHANGED <<book, start, sessions, fi, results, written, otherThanFinder>>

\* driver.execute_script raises in create_driver: no try block is around it,
\* the exception leaves create_driver and main
PatchFails ==
    /\ fpc = "patch"
    /\ fpc' = "create_failed"
    /\ UNCHANGED <<book, start, sessions, fi, results, written, otherThanFinder>>

\* results.append(search_medicine(driver, name)) with the one driver
Search ==
    /\ fpc = "loop"
    /\ fi <= Len(book)
    /\ \E o \in SearchOutcomes :
           results' = Append(results, search_medicine(book[fi].name, o))
    /\ fi' = fi + 1
    /\ UNCHANGED <<book, start, sessions, written, fpc, otherThanFinder>>

\* driver.quit() of the finally clause
Quit(s) == [s EXCEPT !.open = 0]

\* an exception leaves the loop (KeyboardInterrupt in a search or in the
\* sleep): finally: driver.quit(), and main fails
LoopRaises ==
    /\ fpc = "loop"
    /\ fi <= Len(book)
    /\ sessions' = Quit(sessions)
    /\ fpc' = "failed"
    /\ UNCHANGED <<book, start, fi, results, written, otherThanFinder>>

\* the loop ends: finally: driver.quit()
EndLoop ==
    /\ fpc = "loop"
    /\ fi > Len(book)
    /\ sessions' = Quit(sessions)
    /\ fpc' = "write"
    /\ UNCHANGED <<book, start, fi, results, written, otherThanFinder>>

\* results = prefix + results; write_output(...) saves the output workbook
WriteOutput ==
    /\ fpc = "write"
    /\ results' = prefix([k \in 1..Len(book) |-> book[k].name], start) \o results
    /\ written' = write_output(book, results')
    /\ fpc' = "done"
    /\ UNCHANGED <<book, start, sessions, fi, otherThanFinder>>

\* write_output raises (wb.save cannot write the file): main fails
WriteFails ==
    /\ fpc = "write"
    /\ fpc' = "failed"
    /\ UNCHANGED <<book, start, sessions, fi, results, written, otherThanFinder>>

NextFinder ==
    \/ LaunchChrome
    \/ LaunchFails
    \/ PatchNavigator
    \/ PatchFails
    \/ Search
    \/ LoopRaises
    \/ EndLoop
    \/ WriteOutput
    \/ WriteFails

SpecFinder == InitFinder /\ [][NextFinder]_vars

----------------------------------------------------------------------------
(* Claims about the URL finder                                             *)

FinderEnded == fpc \in {"done", "failed", "create_failed"}

\* once create_driver has returned, the session is closed on every path
C21_ClosedAfterLoop ==
    fpc \in {"write", "done", "failed"} => sessions.created = 1 /\ sessions.open = 0

\* C21: one browser session is created per batch and used for every record,
\* and no session is open after main has returned or failed, whatever raised.
C21_OneSessionClosed ==
    /\ sessions.created <= 1
    /\ fpc = "loop" => sessions.created = 1 /\ sessions.open = 1
    /\ FinderEnded => sessions.open = 0

\* the value of a cell, None and "" being the same empty cell
CellText(c) == IF c.kind = "None" THEN <<>> ELSE c.text

\* C29: in the written workbook the medicine_url cell of every row before
\* --start N, and of every row for which this run found no URL, holds what it
\* held in the input workbook.
C29_UrlKept ==
    fpc = "done" =>
        \A k \in 1..Len(book) :
            k < start \/ results[k].status # "found" =>
                CellText(written[k].url) = CellText(book[k].url)

----------------------------------------------------------------------------
(* The programs together                                                   *)

Init ==
    \/ InitCanon
    \/ InitResolver
    \/ InitCorpus
    \/ InitExtract
    \/ InitCrawl
    \/ InitUpdate
    \/ InitFinder

Next ==
    \/ NextCanon
    \/ NextResolver
    \/ NextCorpus
    \/ NextExtract
    \/ NextCrawlInterrupt
    \/ NextUpdateCrash
    \/ NextFinder

Spec == Init /\ [][Next]_vars

====
